---- MODULE Spec2Model ----
(***************************************************************************)
(* Verification model of Tarang: the TarangClient read cache               *)
(* (src/src/client.ts) and the Model query/mutation engine                 *)
(* (src/src/model.ts, first class in the file) with its value codec        *)
(* (src/src/utils.ts).                                                     *)
(*                                                                         *)
(* Range strings are sequences of one-character strings so that            *)
(* split('!') and startsWith are computed, not assumed.                    *)
(***************************************************************************)
EXTENDS Integers, Sequences, FiniteSets, TLC

VARIABLES
    \* ---- TarangClient (src/src/client.ts) ----
    cache,          \* Map<string, {data, timestamp}> in insertion order
    cacheTTL,       \* config.cacheTTL
    maxCacheSize,   \* config.maxCacheSize
    now,            \* Date.now()
    remoteData,     \* what a remote values.get answers at this moment
    written,        \* sheet names written through the client and not read since
    lastOp,         \* the client call (or environment step) that produced this state
    \* ---- the sheet a Model is bound to (remote) ----
    sheetExists,    \* the tab exists
    sheetHeader,    \* row 1 (<<>> when empty)
    sheetRows,      \* rows 2.. as cell text
    view,           \* what a read of the data range answers (a current or past sheetRows)
    \* ---- Model (src/src/model.ts) ----
    schema,         \* this.schema.definition, in key order
    headers,        \* this.headers
    lastAutoIncrementValues,    \* this.lastAutoIncrementValues
    calls,          \* the operations in flight, each at its pending await
    opCount,        \* operations started so far
    issued,         \* auto-increment values generated so far, in order
    allEmpty        \* every read made to generate them answered no rows

cvars == <<cache, cacheTTL, maxCacheSize, now, remoteData, written, lastOp>>

svars == <<sheetExists, sheetHeader, sheetRows, view>>

mvars == <<schema, headers, lastAutoIncrementValues, calls, opCount, issued, allEmpty>>

mvarsButCalls == <<schema, headers, lastAutoIncrementValues, opCount, issued, allEmpty>>

vars == <<cache, cacheTTL, maxCacheSize, now, remoteData, written, lastOp,
          sheetExists, sheetHeader, sheetRows, view,
          schema, headers, lastAutoIncrementValues, calls, opCount, issued, allEmpty>>

----------------------------------------------------------------------------
\* Bounds

MaxTime == 2        \* the clock runs 0..MaxTime
MaxCap  == 3        \* maxCacheSize is configured in 0..MaxCap
MaxOps  == 2        \* operations called on one Model in one behaviour
MaxRows == 2        \* data rows in the sheet at the start

----------------------------------------------------------------------------
\* Range strings

RangeStrings ==
    { <<"S", "!", "A">>, <<"S", "!", "B">>, <<"S", "1", "!", "A">>, <<"T", "!", "A">> }

TTLChoices == {0, 2}

\* what a remote read can answer (0: the range is empty, values is undefined)
Payloads == {0, 1}

Max(a, b) == IF a > b THEN a ELSE b

\* String.prototype.startsWith
StartsWith(s, p) == Len(p) <= Len(s) /\ SubSeq(s, 1, Len(p)) = p

\* range.split('!')[0]
SheetNameOf(range) ==
    IF \E i \in 1..Len(range) : range[i] = "!"
    THEN LET i == CHOOSE j \in 1..Len(range) :
                    range[j] = "!" /\ \A k \in 1..(j - 1) : range[k] # "!"
         IN SubSeq(range, 1, i - 1)
    ELSE range

----------------------------------------------------------------------------
\* The cache (a Map keeps insertion order; set() on a present key keeps its place)

Entry(key, data, timestamp) == [key |-> key, data |-> data, timestamp |-> timestamp]

CacheKeys(c) == { c[i].key : i \in 1..Len(c) }

\* Map.get: the entries stored under key (none or one)
CacheGet(c, key) == SelectSeq(c, LAMBDA e : e.key = key)

\* Map.set
CacheSet(c, key, data, timestamp) ==
    IF key \in CacheKeys(c)
    THEN [i \in 1..Len(c) |-> IF c[i].key = key THEN Entry(key, data, timestamp) ELSE c[i]]
    ELSE Append(c, Entry(key, data, timestamp))

IsFreshShort(timestamp, t, ttl) == t - timestamp < ttl - 1

IsFreshInclusive(timestamp, t, ttl) == t - timestamp <= ttl

\* client.ts:48  Date.now() - cached.timestamp < this.cacheTTL
IsFresh(timestamp, t, ttl) == t - timestamp < ttl

\* client.ts:46-51
CacheHit(c, range, t, ttl) ==
    /\ ttl > 0
    /\ CacheGet(c, range) # <<>>
    /\ IsFresh(CacheGet(c, range)[1].timestamp, t, ttl)

\* client.ts:60-63  the entries dropped before a store
EvictedBy(c, max) ==
    IF Len(c) >= max /\ c # <<>> /\ Head(c).key # <<>> THEN <<Head(c)>> ELSE <<>>

EnforceMaxSize(c, max) ==
    IF EvictedBy(c, max) # <<>> THEN Tail(c) ELSE c

\* client.ts:28-39
InvalidatedBy(c, range) ==
    LET sheetName == SheetNameOf(range)
    IN  IF sheetName = <<>> THEN <<>>
        ELSE SelectSeq(c, LAMBDA e : StartsWith(e.key, sheetName \o <<"!">>))

invalidateCacheExactKey(c, range) == SelectSeq(c, LAMBDA e : e.key # range)

invalidateCacheNoBang(c, range) ==
    SelectSeq(c, LAMBDA e : ~StartsWith(e.key, SheetNameOf(range)))

invalidateCache(c, range) ==
    LET gone == InvalidatedBy(c, range)
    IN  SelectSeq(c, LAMBDA e : \A i \in 1..Len(gone) : gone[i] # e)

----------------------------------------------------------------------------
\* Client calls

\* what a call did: served from the cache (hit) or by a remote read, the payload
\* returned or written, the entries it removed, whether an entry under the same
\* key was present but not served (replaced), and whether the sheet had been
\* written since its last read (afterWrite)
Op(op, range, hit, data, evicted, replaced, afterWrite) ==
    [op |-> op, range |-> range, hit |-> hit, data |-> data,
     evicted |-> evicted, replaced |-> replaced, afterWrite |-> afterWrite]

WriteOps == {"append", "update", "clear"}

\* client.ts:45-68; delay is the time the remote read takes
getSheetValues(range, delay) ==
    /\ now + delay <= MaxTime
    /\ IF CacheHit(cache, range, now, cacheTTL)
       THEN /\ delay = 0
            /\ lastOp' = Op("get", range, TRUE, CacheGet(cache, range)[1].data, <<>>,
                            FALSE, SheetNameOf(range) \in written)
            /\ UNCHANGED <<cache, now>>
       ELSE /\ now' = now + delay
            /\ cache' = IF cacheTTL > 0
                        THEN CacheSet(EnforceMaxSize(cache, maxCacheSize),
                                      range, remoteData, now')
                        ELSE cache
            /\ lastOp' = Op("get", range, FALSE, remoteData,
                            IF cacheTTL > 0 THEN EvictedBy(cache, maxCacheSize) ELSE <<>>,
                            CacheGet(cache, range) # <<>>,
                            SheetNameOf(range) \in written)
    /\ written' = written \ {SheetNameOf(range)}
    /\ UNCHANGED <<cacheTTL, maxCacheSize, remoteData, svars, mvars>>

\* client.ts:70-103: the remote call, then invalidateCache(range)
WriteCall(op, range, values) ==
    /\ remoteData' = values
    /\ cache' = invalidateCache(cache, range)
    /\ written' = written \cup {SheetNameOf(range)}
    /\ lastOp' = Op(op, range, FALSE, values, InvalidatedBy(cache, range), FALSE, FALSE)
    /\ UNCHANGED <<cacheTTL, maxCacheSize, now, svars, mvars>>

appendValues(range, values) == WriteCall("append", range, values)

updateValues(range, values) == WriteCall("update", range, values)

clearValues(range) == WriteCall("clear", range, 0)

\* the clock advances
Tick ==
    /\ now < MaxTime
    /\ now' = now + 1
    /\ lastOp' = Op("tick", <<>>, FALSE, 0, <<>>, FALSE, FALSE)
    /\ UNCHANGED <<cache, cacheTTL, maxCacheSize, remoteData, written, svars, mvars>>

----------------------------------------------------------------------------
\* Typed values (utils.ts ParsedValue, plus undefined).  One record shape for
\* every value: t is the JavaScript kind, n the number or the instant,
\* s the text.

Undefined == [t |-> "undefined", n |-> 0, s |-> ""]
Null      == [t |-> "null", n |-> 0, s |-> ""]
NumV(n)   == [t |-> "number", n |-> n, s |-> ""]
NaNV      == [t |-> "number", n |-> 0, s |-> "NaN"]
StrV(s)   == [t |-> "string", n |-> 0, s |-> s]
BoolV(b)  == [t |-> "boolean", n |-> IF b THEN 1 ELSE 0, s |-> ""]
DateV(ms) == [t |-> "date", n |-> ms, s |-> ""]
InvalidDate == [t |-> "date", n |-> 0, s |-> "Invalid Date"]
JsonV(text) == [t |-> "json", n |-> 0, s |-> text]

\* String(n) for the numbers the model uses
NumTexts == <<"0", "1", "2", "3", "4", "5", "6", "7", "8", "9">>

\* Date.prototype.toISOString for the instants 0..MaxTime+1
IsoTexts == <<"T0", "T1", "T2", "T3", "T4", "T5">>

\* JSON texts JSON.parse accepts (compact form)
JsonTexts == {"{}", "[]"}

IsoText(t) == IsoTexts[t + 1]

\* Number(text) for a non-empty text
ToNumber(text) ==
    IF \E i \in 1..Len(NumTexts) : NumTexts[i] = text
    THEN NumV((CHOOSE i \in 1..Len(NumTexts) : NumTexts[i] = text) - 1)
    ELSE NaNV

\* new Date(text)
ToDate(text) ==
    IF \E i \in 1..Len(IsoTexts) : IsoTexts[i] = text
    THEN DateV((CHOOSE i \in 1..Len(IsoTexts) : IsoTexts[i] = text) - 1)
    ELSE InvalidDate

\* String.prototype.toLowerCase on the texts that spell a boolean
ToLowerCase(text) ==
    CASE text \in {"TRUE", "True", "true"} -> "true"
      [] text \in {"FALSE", "False", "false"} -> "false"
      [] OTHER -> text

\* the JSON texts of the strings "a" and "1"
JsonStringTexts == {"\"a\"", "\"1\""}

\* utils.ts:17-21: JSON.parse(value), null when it throws
JsonParse(text) ==
    CASE text \in JsonTexts -> JsonV(text)
      [] text \in JsonStringTexts -> StrV(IF text = "\"a\"" THEN "a" ELSE "1")
      [] text \in {"true", "false"} -> BoolV(text = "true")
      [] text = "null" -> Null
      [] ToNumber(text) # NaNV -> ToNumber(text)
      [] OTHER -> Null

\* utils.ts:9-27; cell is <<>> for undefined, <<text>> otherwise
parseValue(cell, type) ==
    IF cell = <<>> \/ cell[1] = "" THEN Null
    ELSE CASE type = "number"  -> ToNumber(cell[1])
           [] type = "boolean" -> BoolV(ToLowerCase(cell[1]) = "true")
           [] type = "json"    -> JsonParse(cell[1])
           [] type = "date"    -> ToDate(cell[1])
           [] OTHER            -> StrV(cell[1])

\* utils.ts:29-34
stringifyValue(value) ==
    CASE value.t \in {"null", "undefined"} -> ""
      [] value.t = "date" -> IF value = InvalidDate THEN "Invalid Date" ELSE IsoText(value.n)
      [] value.t = "json" -> value.s
      [] value.t = "number" -> IF value = NaNV THEN "NaN" ELSE NumTexts[value.n + 1]
      [] value.t = "boolean" -> IF value.n = 1 THEN "true" ELSE "false"
      [] OTHER -> value.s

\* JavaScript truthiness
Truthy(value) ==
    CASE value.t \in {"null", "undefined"} -> FALSE
      [] value.t = "number" -> value # NaNV /\ value.n # 0
      [] value.t = "boolean" -> value.n = 1
      [] value.t = "string" -> value.s # ""
      [] OTHER -> TRUE

\* a === b (objects, that is dates and parsed JSON, are compared by reference)
StrictEquals(a, b) ==
    /\ a.t = b.t
    /\ a.t \notin {"date", "json"}
    /\ a # NaNV
    /\ a = b

\* the number a relational operator compares (ToNumber of the primitive);
\* two strings are compared as text by JavaScript, which is outside this
\* model: no filter used here puts an operator on a textual column
NumericOf(value) ==
    CASE value.t = "number" -> value
      [] value.t = "date" -> IF value = InvalidDate THEN NaNV ELSE NumV(value.n)
      [] value.t = "boolean" -> NumV(value.n)
      [] value.t = "null" -> NumV(0)
      [] value.t = "string" -> IF value.s = "" THEN NumV(0) ELSE ToNumber(value.s)
      [] OTHER -> NaNV

\* a < b; any comparison with NaN is false
LessThan(a, b) ==
    /\ NumericOf(a) # NaNV /\ NumericOf(b) # NaNV
    /\ NumericOf(a).n < NumericOf(b).n

\* a <= b
LessOrEqual(a, b) ==
    /\ NumericOf(a) # NaNV /\ NumericOf(b) # NaNV
    /\ NumericOf(a).n <= NumericOf(b).n

----------------------------------------------------------------------------
\* Schema (schema.ts, datatypes.ts)

Column(name, type) ==
    [name |-> name, type |-> type, unique |-> FALSE, autoIncrement |-> FALSE,
     hasDefault |-> FALSE, default |-> Undefined,
     isCreatedAt |-> FALSE, isUpdatedAt |-> FALSE, isDeletedAt |-> FALSE]

\* the schema of tests/concurrency.test.ts: no soft-delete column
PlainSchema ==
    << [Column("id", "number") EXCEPT !.autoIncrement = TRUE],
       Column("name", "string") >>

\* the schema of tests/performance.test.ts and of the soft-delete tests, with
\* a unique name as in the README
UserSchema ==
    << [Column("id", "number") EXCEPT !.autoIncrement = TRUE],
       [Column("name", "string") EXCEPT !.unique = TRUE],
       [Column("deletedAt", "date") EXCEPT !.isDeletedAt = TRUE] >>

\* Object.keys(this.schema.definition)
Keys(def) == [i \in 1..Len(def) |-> def[i].name]

HasKey(def, key) == \E i \in 1..Len(def) : def[i].name = key

ColumnDef(def, key) == def[CHOOSE i \in 1..Len(def) : def[i].name = key]

\* model.ts:421-429 (<<>> for null)
getDeletedAtField(def) ==
    LET hits == SelectSeq(def, LAMBDA col : col.type = "date" /\ col.isDeletedAt)
    IN  IF hits = <<>> THEN <<>> ELSE <<Head(hits).name>>

\* model.ts:431-439
getUpdatedAtField(def) ==
    LET hits == SelectSeq(def, LAMBDA col : col.type = "date" /\ col.isUpdatedAt)
    IN  IF hits = <<>> THEN <<>> ELSE <<Head(hits).name>>

----------------------------------------------------------------------------
\* Rows and objects.  An object is a function from its keys to typed values.

EmptyObject == [k \in {} |-> Undefined]

\* obj[key], undefined when absent
Get(obj, key) == IF key \in DOMAIN obj THEN obj[key] ELSE Undefined

\* { ...a, ...b }
Spread(a, b) ==
    [k \in (DOMAIN a) \cup (DOMAIN b) |-> IF k \in DOMAIN b THEN b[k] ELSE a[k]]

CellAt(row, index) == IF index <= Len(row) THEN <<row[index]>> ELSE <<>>

\* model.ts:57-70
mapRowToObject(def, hdrs, row) ==
    [header \in {hdrs[i] : i \in 1..Len(hdrs)} |->
        LET index == CHOOSE i \in 1..Len(hdrs) :
                        hdrs[i] = header /\ \A j \in (i + 1)..Len(hdrs) : hdrs[j] # header
            value == CellAt(row, index)
        IN  IF HasKey(def, header)
            THEN parseValue(value, ColumnDef(def, header).type)
            ELSE IF value = <<>> THEN Undefined ELSE StrV(value[1])]

\* model.ts:72-77
mapObjectToRow(hdrs, obj) ==
    [i \in 1..Len(hdrs) |-> stringifyValue(Get(obj, hdrs[i]))]

----------------------------------------------------------------------------
\* Filters.  A filter maps column names to a literal or to an operator object
\* (a function from the operator names present, among gt, lt, gte, lte, ne,
\* like and ilike, to their operands).

Literal(value) == [isOperator |-> FALSE, value |-> value, ops |-> EmptyObject]
Operators(ops) == [isOperator |-> TRUE, value |-> Undefined, ops |-> ops]

\* x != null
NotNullish(value) == value.t \notin {"null", "undefined"}

\* model.ts:506-513
matchesComparisonOperators(itemValue, ops) ==
    /\ ~(NotNullish(Get(ops, "gt")) /\ LessOrEqual(itemValue, Get(ops, "gt")))
    /\ ~(NotNullish(Get(ops, "lt")) /\ LessOrEqual(Get(ops, "lt"), itemValue))
    /\ ~(NotNullish(Get(ops, "gte")) /\ LessThan(itemValue, Get(ops, "gte")))
    /\ ~(NotNullish(Get(ops, "lte")) /\ LessThan(Get(ops, "lte"), itemValue))
    /\ ~("ne" \in DOMAIN ops /\ StrictEquals(itemValue, ops["ne"]))

\* the characters of the texts that patterns are matched against, and of the
\* patterns; any other text used is a single character
Characters(text) ==
    CASE text = "" -> <<>>
      [] text = "ab" -> <<"a", "b">>
      [] text = "Ab" -> <<"A", "b">>
      [] text = "AB" -> <<"A", "B">>
      [] text = "a.b" -> <<"a", ".", "b">>
      [] text = "a\nb" -> <<"a", "\n", "b">>
      [] text = "a%" -> <<"a", "%">>
      [] text = "%b" -> <<"%", "b">>
      [] text = "a_b" -> <<"a", "_", "b">>
      [] text = "%.%" -> <<"%", ".", "%">>
      [] OTHER -> <<text>>

\* the characters a regular expression's . does not match
LineTerminators == {"\n", "\r"}

\* the characters the first replaceAll of createLikeRegex escapes
RegexSpecials == {".", "*", "+", "?", "^", "$", "{", "}", "(", ")", "|", "[", "]", "\\"}

\* canonicalization of a character under the flag i
Canonicalize(ch) ==
    CASE ch = "a" -> "A"
      [] ch = "b" -> "B"
      [] OTHER -> ch

\* model.ts:463-467: the regular expression between ^ and $, as its sequence
\* of terms: an escaped or ordinary character, . or .*
createLikeRegex(pattern) ==
    [i \in 1..Len(Characters(pattern)) |->
        LET ch == Characters(pattern)[i]
        IN  CASE ch \in RegexSpecials -> [k |-> "char", c |-> ch]
              [] ch = "%" -> [k |-> "dotStar", c |-> ""]
              [] ch = "_" -> [k |-> "dot", c |-> ""]
              [] OTHER -> [k |-> "char", c |-> ch]]

\* RegExp.prototype.test for ^regex$ (no flag, or the flag i): the terms from
\* the i-th on match the characters from the j-th on, up to the end
RECURSIVE RegexMatchesFrom(_, _, _, _, _)
RegexMatchesFrom(regex, i, chars, j, ignoreCase) ==
    IF i > Len(regex) THEN j > Len(chars)
    ELSE CASE regex[i].k = "char" ->
                /\ j <= Len(chars)
                /\ IF ignoreCase
                   THEN Canonicalize(chars[j]) = Canonicalize(regex[i].c)
                   ELSE chars[j] = regex[i].c
                /\ RegexMatchesFrom(regex, i + 1, chars, j + 1, ignoreCase)
           [] regex[i].k = "dot" ->
                /\ j <= Len(chars)
                /\ chars[j] \notin LineTerminators
                /\ RegexMatchesFrom(regex, i + 1, chars, j + 1, ignoreCase)
           [] OTHER ->
                \/ RegexMatchesFrom(regex, i + 1, chars, j, ignoreCase)
                \/ /\ j <= Len(chars)
                   /\ chars[j] \notin LineTerminators
                   /\ RegexMatchesFrom(regex, i, chars, j + 1, ignoreCase)

RegexTest(regex, ignoreCase, text) ==
    RegexMatchesFrom(regex, 1, Characters(text), 1, ignoreCase)

\* model.ts:515-526
matchesStringOperators(itemValue, ops) ==
    /\ "like" \in DOMAIN ops
          => /\ itemValue.t = "string"
             /\ RegexTest(createLikeRegex(ops["like"].s), FALSE, itemValue.s)
    /\ "ilike" \in DOMAIN ops
          => /\ itemValue.t = "string"
             /\ RegexTest(createLikeRegex(ops["ilike"].s), TRUE, itemValue.s)

\* model.ts:494-504
matchesOperators(itemValue, ops) ==
    IF ~NotNullish(itemValue)
    THEN "ne" \in DOMAIN ops
    ELSE /\ matchesComparisonOperators(itemValue, ops)
         /\ matchesStringOperators(itemValue, ops)

\* model.ts:485-492
matchesFilterValue(itemValue, filterValue) ==
    IF ~filterValue.isOperator
    THEN StrictEquals(itemValue, filterValue.value)
    ELSE matchesOperators(itemValue, filterValue.ops)

\* model.ts:469-479
matchesFilter(item, filter) ==
    \A key \in DOMAIN filter : matchesFilterValue(Get(item, key), filter[key])

----------------------------------------------------------------------------
\* The remote sheet

\* values.update at <sheet>!A2: the rows written replace the cells they cover
overwriteRows(rows, newRows) ==
    [i \in 1..Max(Len(rows), Len(newRows)) |->
        IF i > Len(newRows) THEN rows[i]
        ELSE IF i > Len(rows) THEN newRows[i]
        ELSE newRows[i] \o SubSeq(rows[i], Len(newRows[i]) + 1, Len(rows[i]))]

\* the remote read path catches up with the sheet
Sync ==
    /\ view # sheetRows
    /\ view' = sheetRows
    /\ UNCHANGED <<sheetExists, sheetHeader, sheetRows, cvars, mvars>>

NoSheet ==
    /\ sheetExists = FALSE
    /\ sheetHeader = <<>>
    /\ sheetRows = <<>>
    /\ view = <<>>

----------------------------------------------------------------------------
\* Model operations.  An action is the code that runs when the await named by
\* pc resolves, up to the next await on a remote call.

\* the operations of a behaviour, in the order they are called
Calls == 1..MaxOps

RemoteCall(op, range, values) == [op |-> op, range |-> range, values |-> values]

\* what a rejected promise carries: the code and the message of the error
\* (code 0: the error has no code; the message is a sequence of fragments)
Error(code, message) == [code |-> code, message |-> message]

NoError == Error(0, <<>>)

\* model.ts:356
UniqueViolation == Error(0, <<"Unique constraint violation">>)

\* String.prototype.includes on a message
Includes(message, phrase) == \E i \in 1..Len(message) : message[i] = phrase

\* what the remote answers for a range of a tab that does not exist
TableMissing == Error(400, <<"Unable to parse range", ": Users!A1:Z1">>)

\* what the remote answers to addSheet for a title in use
AlreadyExists == Error(400, <<"A sheet with the name Users ", "already exists">>)

IsTableMissingAny400(err) == err.code = 400

\* model.ts:44: the errors ensureHeaders recovers from
IsTableMissing(err) ==
    /\ err.code = 400
    /\ \/ Includes(err.message, "Unable to parse range")
       \/ Includes(err.message, "Invalid values")

\* client.ts:124: the errors createSheet ignores
IsAlreadyExists(err) == err.code = 400 /\ Includes(err.message, "already exists")

\* types.ts FindOptions: sortBy, skip and limit are <<>> when undefined, sortOrder
\* is "" when undefined
FindOptions(includeDeleted, sortBy, sortOrder, skip, limit) ==
    [includeDeleted |-> includeDeleted, sortBy |-> sortBy, sortOrder |-> sortOrder,
     skip |-> skip, limit |-> limit,
     include |-> <<>>]      \* the relations to fetch (model.ts:150-152), configured

\* the local state of one operation
Call(op, filter, data, force) ==
    [op |-> op, pc |-> "start", filter |-> filter, data |-> data, force |-> force,
     doing |-> op,          \* the method of Model now running for it
     includeDeleted |-> FALSE,
     options |-> FindOptions(FALSE, <<>>, "", <<>>, <<>>),
     alt |-> EmptyObject,   \* upsert: the data to create when nothing is found
     inputs |-> <<>>,       \* create, createMany: the input rows as given
     batch |-> <<>>,        \* createMany: the input rows still to be prepared
     created |-> <<>>,      \* the objects prepared so far
     recovering |-> FALSE,  \* ensureHeaders is in its catch block
     failed |-> <<>>,       \* the failures its remote calls raised, in order
     fetched |-> <<>>,      \* the findMany calls it made on related Models
     relatedHeaders |-> <<>>,   \* the headers of the related Model
     todo |-> <<>>,         \* keys still to be checked or generated
     rows |-> <<>>,         \* the data rows this operation read
     pending |-> <<>>,      \* the rows of the write it is waiting for
     wrote |-> <<>>,        \* the remote writes it has issued, in order
     result |-> <<>>,       \* the objects it returns
     count |-> 0,           \* the number it returns
     generated |-> <<>>,    \* the auto-increment values it generated
     error |-> NoError]     \* the error it rejected with

Idle == [Call("idle", EmptyObject, EmptyObject, FALSE) EXCEPT !.pc = "idle"]

NoModel ==
    /\ schema = <<>>
    /\ headers = <<>>
    /\ lastAutoIncrementValues = EmptyObject
    /\ calls = [c \in Calls |-> Idle]
    /\ opCount = 0
    /\ issued = <<>>
    /\ allEmpty = TRUE

UniqueKeysNone(def, data) == <<>>

\* model.ts:349-353  the keys of data that name a unique column
UniqueKeys(def, data) ==
    SelectSeq(Keys(def), LAMBDA key : key \in DOMAIN data /\ ColumnDef(def, key).unique)

\* model.ts:373-394 without the auto-increment case; t is the current instant
getDefaultValue(columnDef, t) ==
    IF columnDef.hasDefault THEN columnDef.default
    ELSE IF columnDef.type = "date" /\ (columnDef.isCreatedAt \/ columnDef.isUpdatedAt)
         THEN StrV(IsoText(t))
         ELSE Undefined

\* model.ts:380  the column takes the auto-increment branch of getDefaultValue
IsAutoIncrement(columnDef) ==
    ~columnDef.hasDefault /\ columnDef.autoIncrement /\ columnDef.type = "number"

\* model.ts:361-371  the keys for which applyColumnDefaults awaits a read
AutoIncrementKeys(def, data) ==
    SelectSeq(Keys(def), LAMBDA key :
        key \notin DOMAIN data /\ IsAutoIncrement(ColumnDef(def, key)))

\* model.ts:361-371  the defaults that need no read
applyColumnDefaults(def, data, t) ==
    LET filled == { key \in {def[i].name : i \in 1..Len(def)} :
                      /\ key \notin DOMAIN data
                      /\ ~IsAutoIncrement(ColumnDef(def, key))
                      /\ getDefaultValue(ColumnDef(def, key), t) # Undefined }
    IN  [key \in (DOMAIN data) \cup filled |->
            IF key \in DOMAIN data THEN data[key]
            ELSE getDefaultValue(ColumnDef(def, key), t)]

\* model.ts:444-451  the largest number found in the column (0 when none)
ScanMax(def, hdrs, rows, key) ==
    LET vals == { Get(mapRowToObject(def, hdrs, rows[i]), key) : i \in 1..Len(rows) }
        nums == { v.n : v \in { w \in vals : w.t = "number" /\ w # NaNV } } \cup {0}
    IN  CHOOSE m \in nums : \A n \in nums : n <= m

NextValIgnoringWatermark(max, last, key) == max + 1

\* model.ts:453-458
NextAutoIncrementValue(max, last, key) ==
    (IF key \in DOMAIN last THEN Max(max, last[key]) ELSE max) + 1

RememberNothing(last, key, nextVal) == last

\* model.ts:459
Remember(last, key, nextVal) ==
    [k \in (DOMAIN last) \cup {key} |-> IF k = key THEN nextVal ELSE last[k]]

\* model.ts:86-92  the objects findMany keeps before filtering
LiveItems(def, items, includeDeleted) ==
    IF ~includeDeleted /\ getDeletedAtField(def) # <<>>
    THEN SelectSeq(items, LAMBDA item : ~Truthy(Get(item, getDeletedAtField(def)[1])))
    ELSE items

\* model.ts:79-96  findMany(filter) up to the filter, on the rows read
findMany(def, hdrs, rows, filter, includeDeleted) ==
    SelectSeq(LiveItems(def, [i \in 1..Len(rows) |-> mapRowToObject(def, hdrs, rows[i])],
                        includeDeleted),
              LAMBDA item : matchesFilter(item, filter))

\* model.ts:134-146: the comparator of applySort
compare(valA, valB, sortOrder) ==
    IF ~NotNullish(valA) /\ ~NotNullish(valB) THEN 0
    ELSE IF ~NotNullish(valA) THEN (IF sortOrder = "asc" THEN 1 ELSE -1)
    ELSE IF ~NotNullish(valB) THEN (IF sortOrder = "asc" THEN -1 ELSE 1)
    ELSE IF LessThan(valA, valB) THEN (IF sortOrder = "asc" THEN -1 ELSE 1)
    ELSE IF LessThan(valB, valA) THEN (IF sortOrder = "asc" THEN 1 ELSE -1)
    ELSE 0

\* model.ts:133-147: Array.prototype.sort is stable; each element goes behind
\* the elements the comparator does not put after it
RECURSIVE applySort(_, _, _)
applySort(results, sortBy, sortOrder) ==
    IF results = <<>> THEN <<>>
    ELSE LET sorted == applySort(SubSeq(results, 1, Len(results) - 1), sortBy, sortOrder)
             last == results[Len(results)]
             k == Cardinality({ i \in 1..Len(sorted) :
                     compare(Get(sorted[i], sortBy), Get(last, sortBy), sortOrder) <= 0 })
         IN  SubSeq(sorted, 1, k) \o <<last>> \o SubSeq(sorted, k + 1, Len(sorted))

applyPaginationLimitFirst(results, skip, limit) ==
    LET limited == IF limit # <<>> /\ limit[1] < Len(results)
                   THEN SubSeq(results, 1, limit[1]) ELSE results
    IN  IF skip # <<>> THEN SubSeq(limited, skip[1] + 1, Len(limited)) ELSE limited

\* model.ts:123-131: Array.prototype.slice for bounds that are not negative
applyPagination(results, skip, limit) ==
    LET skipped == IF skip # <<>> THEN SubSeq(results, skip[1] + 1, Len(results))
                                  ELSE results
    IN  IF limit # <<>> /\ limit[1] < Len(skipped)
        THEN SubSeq(skipped, 1, limit[1])
        ELSE skipped

\* model.ts:79-117  findMany(filter, options) on the rows read
findManyOptions(def, hdrs, rows, filter, options) ==
    LET results == findMany(def, hdrs, rows, filter, options.includeDeleted)
        sorted == IF options.sortBy # <<>>
                  THEN applySort(results, options.sortBy[1],
                                 IF options.sortOrder = "" THEN "asc" ELSE options.sortOrder)
                  ELSE results
    IN  IF options.skip # <<>> \/ options.limit # <<>>
        THEN applyPagination(sorted, options.skip, options.limit)
        ELSE sorted

UpdateRowReencodingAll(def, hdrs, row, filter, updateData) ==
    LET item == mapRowToObject(def, hdrs, row)
    IN  IF matchesFilter(item, filter)
        THEN <<mapObjectToRow(hdrs, Spread(item, updateData)),
               <<Spread(item, updateData)>>>>
        ELSE <<mapObjectToRow(hdrs, item), <<>>>>

UpdateRowIgnoringDeletedAt(def, hdrs, row, filter, updateData) ==
    LET item == mapRowToObject(def, hdrs, row)
    IN  IF matchesFilter(item, filter)
        THEN <<mapObjectToRow(hdrs, Spread(item, updateData)),
               <<Spread(item, updateData)>>>>
        ELSE <<row, <<>>>>

\* model.ts:258-275  what update does with one row: <<row written, updated item or <<>>>>
UpdateRow(def, hdrs, row, filter, updateData) ==
    LET item == mapRowToObject(def, hdrs, row)
        deletedAtField == getDeletedAtField(def)
    IN  IF deletedAtField # <<>> /\ Truthy(Get(item, deletedAtField[1]))
        THEN <<row, <<>>>>
        ELSE IF matchesFilter(item, filter)
             THEN <<mapObjectToRow(hdrs, Spread(item, updateData)),
                    <<Spread(item, updateData)>>>>
             ELSE <<row, <<>>>>

\* model.ts:295-309  what a soft delete does with one row
SoftDeleteRow(def, hdrs, row, filter, t) ==
    LET item == mapRowToObject(def, hdrs, row)
        deletedAtField == getDeletedAtField(def)[1]
    IN  IF matchesFilter(item, filter) /\ ~Truthy(Get(item, deletedAtField))
        THEN <<mapObjectToRow(hdrs, Spread(item,
                    [k \in {deletedAtField} |-> StrV(IsoText(t))])), <<item>>>>
        ELSE <<row, <<>>>>

\* concatenation of a sequence of sequences
RECURSIVE Flatten(_)
Flatten(seqs) == IF seqs = <<>> THEN <<>> ELSE Head(seqs) \o Flatten(Tail(seqs))

RECURSIVE ToAppend(_, _, _)

\* model.ts:344, 361-371  validation passed: generate the auto-increment
\* values, or go on with the other defaults
ToDefaults(call, hdrs, t) ==
    IF AutoIncrementKeys(schema, call.data) # <<>>
    THEN [call EXCEPT !.pc = "autoIncrementRead",
                      !.todo = AutoIncrementKeys(schema, call.data)]
    ELSE ToAppend(call, hdrs, t)

\* model.ts:340-347  prepareDataForCreate(call.data) up to its first read
prepareDataForCreate(call, hdrs, t) ==
    IF UniqueKeys(schema, call.data) # <<>>
    THEN [call EXCEPT !.pc = "uniqueRead", !.todo = UniqueKeys(schema, call.data)]
    ELSE ToDefaults(call, hdrs, t)

\* model.ts:221-229  createMany goes to its next input row, or has no more
NextRow(call, hdrs, t) ==
    IF call.batch # <<>>
    THEN prepareDataForCreate([call EXCEPT !.data = Head(call.batch), !.batch = Tail(@)],
                              hdrs, t)
    ELSE IF call.pending # <<>>
    THEN [call EXCEPT !.pc = "append",
                      !.wrote = Append(@, RemoteCall("appendValues", "A:A", call.pending))]
    ELSE [call EXCEPT !.pc = "done"]

ToAppendInFront(call, hdrs, t) ==
    LET dataWithDefaults == applyColumnDefaults(schema, call.data, t)
        row == mapObjectToRow(hdrs, dataWithDefaults)
    IN  NextRow([call EXCEPT !.data = dataWithDefaults, !.todo = <<>>,
                             !.pending = <<row>> \o @,
                             !.created = Append(@, dataWithDefaults)], hdrs, t)

\* model.ts:211-212, 222-224  a row is prepared: apply the defaults that need
\* no read and encode it; create calls appendValues, createMany goes on
ToAppend(call, hdrs, t) ==
    LET dataWithDefaults == applyColumnDefaults(schema, call.data, t)
        row == mapObjectToRow(hdrs, dataWithDefaults)
    IN  NextRow([call EXCEPT !.data = dataWithDefaults, !.todo = <<>>,
                             !.pending = Append(@, row),
                             !.created = Append(@, dataWithDefaults)], hdrs, t)

\* model.ts:26-27 and the entry of each operation: ensureHeaders has returned
\* (hdrs are the headers it left)
AfterHeaders(call, hdrs, t) ==
    IF call.doing = "create" THEN prepareDataForCreate(call, hdrs, t)
    ELSE IF call.doing = "createMany" THEN NextRow(call, hdrs, t)
    ELSE [call EXCEPT !.pc = "dataRead"]

StartReadingHeaderAgain(c, call) ==
    /\ c = opCount + 1
    /\ calls[c] = Idle
    /\ opCount' = c
    /\ calls' = [calls EXCEPT ![c] = [call EXCEPT !.pc = "headerRead"]]
    /\ UNCHANGED <<schema, headers, lastAutoIncrementValues, issued, allEmpty, svars, cvars>>

\* an operation is called: it runs up to its first remote call
Start(c, call) ==
    /\ c = opCount + 1
    /\ calls[c] = Idle
    /\ opCount' = c
    /\ calls' = [calls EXCEPT ![c] =
                    IF headers # <<>>
                    THEN AfterHeaders(call, headers, now)
                    ELSE [call EXCEPT !.pc = "headerRead"]]
    /\ UNCHANGED <<schema, headers, lastAutoIncrementValues, issued, allEmpty, svars, cvars>>

\* model.ts:208
create(c, data) ==
    Start(c, [Call("create", EmptyObject, data, FALSE) EXCEPT !.inputs = <<data>>])

\* model.ts:244
update(c, filter, data) == Start(c, Call("update", filter, data, FALSE))

\* model.ts:284
delete(c, filter, force) == Start(c, Call("delete", filter, EmptyObject, force))

\* model.ts:79
findManyCall(c, filter, options) ==
    Start(c, [Call("findMany", filter, EmptyObject, FALSE)
                EXCEPT !.includeDeleted = options.includeDeleted, !.options = options])

\* model.ts:203
findFirst(c, filter, options) ==
    Start(c, [Call("findFirst", filter, EmptyObject, FALSE)
                EXCEPT !.includeDeleted = options.includeDeleted, !.options = options])

\* model.ts:216
createMany(c, data) ==
    Start(c, [Call("createMany", EmptyObject, EmptyObject, FALSE)
                EXCEPT !.inputs = data, !.batch = data])

\* model.ts:234
upsert(c, where, updateData, createData) ==
    Start(c, [Call("upsert", where, updateData, FALSE)
                EXCEPT !.doing = "findFirst", !.alt = createData])

\* the failure of the remote call an operation waits for at pc at, raised after
\* the operation has issued the writes in call.wrote
Failure(call, at, err) == [error |-> err, at |-> at, after |-> Len(call.wrote)]

\* a remote call of the operation failed with err and nothing catches it
Rejected(call, at, err) ==
    [call EXCEPT !.pc = "done", !.error = err, !.pending = <<>>, !.result = <<>>,
                 !.count = 0, !.failed = Append(@, Failure(call, at, err))]

\* model.ts:38-54: a call made in the try block of ensureHeaders failed with err
EnsureHeadersCatch(call, at, err) ==
    IF IsTableMissing(err)
    THEN [call EXCEPT !.pc = "createSheet", !.recovering = TRUE,
                      !.failed = Append(@, Failure(call, at, err)),
                      !.wrote = Append(@, RemoteCall("createSheet", "", <<>>))]
    ELSE Rejected(call, at, err)

CreateSheetDoneHeaderReversed(call, swallowed) ==
    [call EXCEPT !.pc = "headerWrite",
                 !.failed = @ \o swallowed,
                 !.wrote = Append(@, RemoteCall("updateValues", "A1",
                        << [i \in 1..Len(schema) |-> Keys(schema)[Len(schema) + 1 - i]] >>))]

\* model.ts:49-50 (after client.ts:105-129 returned): the header write is issued
CreateSheetDone(call, swallowed) ==
    [call EXCEPT !.pc = "headerWrite",
                 !.failed = @ \o swallowed,
                 !.wrote = Append(@, RemoteCall("updateValues", "A1", <<Keys(schema)>>))]

\* model.ts:30-37, 38-46: the read of <sheet>!A1:Z1 has answered or failed
HeaderRead(c) ==
    /\ calls[c].pc = "headerRead"
    /\ IF ~sheetExists
       THEN \* code 400, 'Unable to parse range': createSheet is called
            /\ calls' = [calls EXCEPT ![c] =
                            EnsureHeadersCatch(calls[c], "headerRead", TableMissing)]
            /\ UNCHANGED headers
       ELSE IF sheetHeader # <<>>
       THEN /\ headers' = sheetHeader
            /\ calls' = [calls EXCEPT ![c] = AfterHeaders(calls[c], sheetHeader, now)]
       ELSE /\ headers' = Keys(schema)
            /\ calls' = [calls EXCEPT ![c].pc = "headerWrite",
                            ![c].wrote = Append(@, RemoteCall("updateValues", "A1",
                                                              <<Keys(schema)>>))]
    /\ UNCHANGED <<schema, lastAutoIncrementValues, opCount, issued, allEmpty, svars, cvars>>

\* model.ts:46-50: createSheet has returned; where the tab exists already the
\* remote has answered 'already exists' and client.ts:121-126 has ignored it
CreateSheetReturn(c) ==
    /\ calls[c].pc = "createSheet"
    /\ sheetExists' = TRUE
    /\ headers' = Keys(schema)
    /\ calls' = [calls EXCEPT ![c] =
                    CreateSheetDone(calls[c],
                        IF sheetExists /\ IsAlreadyExists(AlreadyExists)
                        THEN << Failure(calls[c], "createSheet", AlreadyExists) >>
                        ELSE <<>>)]
    /\ UNCHANGED <<schema, lastAutoIncrementValues, opCount, issued, allEmpty,
                   sheetHeader, sheetRows, view, cvars>>

\* model.ts:36, 50: the header write has returned
HeaderWrite(c) ==
    /\ calls[c].pc = "headerWrite"
    /\ sheetHeader' = overwriteRows(<<sheetHeader>>,
                                    calls[c].wrote[Len(calls[c].wrote)].values)[1]
    /\ calls' = [calls EXCEPT ![c] = AfterHeaders(calls[c], headers, now)]
    /\ UNCHANGED <<schema, headers, lastAutoIncrementValues, opCount, issued, allEmpty,
                   sheetExists, sheetRows, view, cvars>>

\* model.ts:354-357: the findFirst of validateUniqueConstraints has answered
UniqueRead(c) ==
    LET call == calls[c]
        key == Head(call.todo)
        existing == findMany(schema, headers, view,
                             [k \in {key} |-> Literal(call.data[key])], FALSE)
    IN  /\ call.pc = "uniqueRead"
        /\ calls' = [calls EXCEPT ![c] =
                IF existing # <<>>
                THEN [call EXCEPT !.pc = "done", !.rows = view,
                                  !.pending = <<>>, !.error = UniqueViolation]
                ELSE IF Tail(call.todo) # <<>>
                THEN [call EXCEPT !.todo = Tail(@), !.rows = view]
                ELSE ToDefaults([call EXCEPT !.rows = view], headers, now)]
        /\ UNCHANGED <<schema, headers, lastAutoIncrementValues, opCount, issued,
                       allEmpty, svars, cvars>>

\* model.ts:441-461: the read of getNextAutoIncrementValue has answered
AutoIncrementRead(c) ==
    LET call == calls[c]
        key == Head(call.todo)
        max == ScanMax(schema, headers, view, key)
        nextVal == NextAutoIncrementValue(max, lastAutoIncrementValues, key)
        filled == [call EXCEPT !.data = Spread(@, [k \in {key} |-> NumV(nextVal)]),
                               !.rows = view,
                               !.generated = Append(@, nextVal)]
    IN  /\ call.pc = "autoIncrementRead"
        /\ nextVal < Len(NumTexts)
        /\ lastAutoIncrementValues' = Remember(lastAutoIncrementValues, key, nextVal)
        /\ issued' = Append(issued, nextVal)
        /\ allEmpty' = (allEmpty /\ view = <<>>)
        /\ calls' = [calls EXCEPT ![c] =
                IF Tail(call.todo) # <<>>
                THEN [filled EXCEPT !.todo = Tail(@)]
                ELSE ToAppend(filled, headers, now)]
        /\ UNCHANGED <<schema, headers, opCount, svars, cvars>>

\* model.ts:212-213: appendValues has returned
AppendReturn(c) ==
    /\ calls[c].pc = "append"
    /\ sheetRows' = sheetRows \o calls[c].pending
    /\ calls' = [calls EXCEPT ![c].pc = "done", ![c].result = calls[c].created]
    /\ UNCHANGED <<mvarsButCalls, sheetExists, sheetHeader, view, cvars>>

\* model.ts:246-281: update, from the answer of the data read to its write
UpdateRead(call, rows, hdrs, t) ==
    LET updatedAtField == getUpdatedAtField(schema)
        updateData == IF updatedAtField # <<>>
                      THEN Spread(call.data, [k \in {updatedAtField[1]} |-> StrV(IsoText(t))])
                      ELSE call.data
        done == [i \in 1..Len(rows) |-> UpdateRow(schema, hdrs, rows[i], call.filter, updateData)]
        newRows == [i \in 1..Len(rows) |-> done[i][1]]
        updatedItems == Flatten([i \in 1..Len(rows) |-> done[i][2]])
    IN  IF updatedItems # <<>>
        THEN [call EXCEPT !.pc = "dataWrite", !.rows = rows, !.pending = newRows,
                          !.result = updatedItems,
                          !.wrote = Append(@, RemoteCall("updateValues", "A2", newRows))]
        ELSE [call EXCEPT !.pc = "done", !.rows = rows]

\* model.ts:292-315: soft delete, from the answer of the data read to its write
SoftDeleteRead(call, rows, hdrs, t) ==
    LET done == [i \in 1..Len(rows) |-> SoftDeleteRow(schema, hdrs, rows[i], call.filter, t)]
        newRows == [i \in 1..Len(rows) |-> done[i][1]]
        deletedCount == Len(Flatten([i \in 1..Len(rows) |-> done[i][2]]))
    IN  IF deletedCount > 0
        THEN [call EXCEPT !.pc = "dataWrite", !.rows = rows, !.pending = newRows,
                          !.count = deletedCount,
                          !.wrote = Append(@, RemoteCall("updateValues", "A2", newRows))]
        ELSE [call EXCEPT !.pc = "done", !.rows = rows]

HardDeleteReadSparingDeleted(call, rows, hdrs) ==
    LET keptRows == SelectSeq(rows, LAMBDA row :
                        \/ ~matchesFilter(mapRowToObject(schema, hdrs, row), call.filter)
                        \/ Truthy(Get(mapRowToObject(schema, hdrs, row), "deletedAt")))
        deletedCount == Len(rows) - Len(keptRows)
    IN  IF deletedCount > 0
        THEN [call EXCEPT !.pc = "clear", !.rows = rows, !.pending = keptRows,
                          !.count = deletedCount,
                          !.wrote = Append(@, RemoteCall("clearValues", "A2:Z", <<>>))]
        ELSE [call EXCEPT !.pc = "done", !.rows = rows]

\* model.ts:317-337: hard delete, from the answer of the data read to its clear
HardDeleteRead(call, rows, hdrs) ==
    LET keptRows == SelectSeq(rows, LAMBDA row :
                        ~matchesFilter(mapRowToObject(schema, hdrs, row), call.filter))
        deletedCount == Len(rows) - Len(keptRows)
    IN  IF deletedCount > 0
        THEN [call EXCEPT !.pc = "clear", !.rows = rows, !.pending = keptRows,
                          !.count = deletedCount,
                          !.wrote = Append(@, RemoteCall("clearValues", "A2:Z", <<>>))]
        ELSE [call EXCEPT !.pc = "done", !.rows = rows]

loadRelationsPerRow(call) ==
    IF call.options.include = <<>> \/ call.result = <<>>
    THEN [call EXCEPT !.pc = "done"]
    ELSE [call EXCEPT !.pc = "relatedHeaderRead",
                      !.fetched = [i \in 1..Len(call.result) |-> call.options.include[1].name]]

\* model.ts:108-110, 149-172: loadRelations up to the await of
\* targetModel.findMany(undefined, relatedOptions), made once for the relation;
\* the target Model has not resolved its headers yet
loadRelations(call) ==
    IF call.options.include = <<>>
    THEN [call EXCEPT !.pc = "done"]
    ELSE [call EXCEPT !.pc = "relatedHeaderRead",
                      !.fetched = Append(@, call.options.include[1].name)]

\* model.ts:174-187: what loadRelations does to one item of the results; an
\* attached row is {t: "object", row}, an attached collection {t: "array", rows}
attachRelation(item, relation, allRelatedRecords) ==
    LET localValue == Get(item, relation.localKey)
        related == SelectSeq(allRelatedRecords, LAMBDA r :
                        StrictEquals(Get(r, relation.foreignKey), localValue))
    IN  IF ~Truthy(localValue) THEN item
        ELSE Spread(item, [k \in {relation.name} |->
                IF relation.type \in {"hasOne", "belongsTo"}
                THEN (IF related # <<>> THEN [t |-> "object", row |-> related[1]] ELSE Null)
                ELSE [t |-> "array", rows |-> related]])

\* model.ts:81-110: findMany, from the answer of the data read to its return
\* or to the fetch of an included relation
FindRead(call, rows, hdrs) ==
    loadRelations([call EXCEPT !.rows = rows,
                     !.result = findManyOptions(schema, hdrs, rows, call.filter,
                                                call.options)])

FindFirstReadWithoutOptions(call, rows, hdrs) ==
    LET results == findMany(schema, hdrs, rows, call.filter, call.includeDeleted)
    IN  [call EXCEPT !.pc = "done", !.rows = rows,
                     !.result = IF results # <<>> THEN <<results[1]>> ELSE <<>>]

\* model.ts:203-206: findFirst returns the first row of findMany(filter,
\* {...options, limit: 1}), or null (an empty result here)
FindFirstRead(call, rows, hdrs) ==
    LET results == findManyOptions(schema, hdrs, rows, call.filter,
                                   [call.options EXCEPT !.limit = <<1>>])
    IN  [call EXCEPT !.pc = "done", !.rows = rows,
                     !.result = IF Len(results) > 0 THEN <<results[1]>> ELSE <<>>]

UpsertReadFindingDeleted(call, rows, hdrs, t) ==
    IF findMany(schema, hdrs, rows, call.filter, TRUE) # <<>>
    THEN [call EXCEPT !.doing = "update", !.pc = "dataRead", !.rows = rows]
    ELSE AfterHeaders([call EXCEPT !.doing = "create", !.data = call.alt, !.rows = rows],
                      hdrs, t)

\* model.ts:234-242: upsert, from the answer of findFirst(where) to the next
\* read of the update or of the create it goes on with
UpsertRead(call, rows, hdrs, t) ==
    IF findMany(schema, hdrs, rows, call.filter, FALSE) # <<>>
    THEN [call EXCEPT !.doing = "update", !.pc = "dataRead", !.rows = rows]
    ELSE AfterHeaders([call EXCEPT !.doing = "create", !.data = call.alt, !.rows = rows],
                      hdrs, t)

\* model.ts:81-82, 246-247, 286-292: the read of <sheet>!A2:Z has answered
DataRead(c) ==
    LET call == calls[c]
    IN  /\ call.pc = "dataRead"
        /\ calls' = [calls EXCEPT ![c] =
                IF call.doing = "update" THEN UpdateRead(call, view, headers, now)
                ELSE IF call.doing = "findMany" THEN FindRead(call, view, headers)
                ELSE IF call.doing = "findFirst" /\ call.op = "upsert"
                THEN UpsertRead(call, view, headers, now)
                ELSE IF call.doing = "findFirst" THEN FindFirstRead(call, view, headers)
                ELSE IF getDeletedAtField(schema) # <<>> /\ ~call.force
                THEN SoftDeleteRead(call, view, headers, now)
                ELSE HardDeleteRead(call, view, headers)]
        /\ UNCHANGED <<mvarsButCalls, svars, cvars>>

\* model.ts:331-334: clearValues has returned
ClearReturn(c) ==
    LET call == calls[c]
    IN  /\ call.pc = "clear"
        /\ sheetRows' = <<>>
        /\ calls' = [calls EXCEPT ![c] =
                IF call.pending # <<>>
                THEN [call EXCEPT !.pc = "dataWrite",
                         !.wrote = Append(@, RemoteCall("updateValues", "A2", call.pending))]
                ELSE [call EXCEPT !.pc = "done"]]
        /\ UNCHANGED <<mvarsButCalls, sheetExists, sheetHeader, view, cvars>>

\* model.ts:278, 312, 333: the write of <sheet>!A2 has returned
DataWrite(c) ==
    /\ calls[c].pc = "dataWrite"
    /\ sheetRows' = overwriteRows(sheetRows, calls[c].pending)
    /\ calls' = [calls EXCEPT ![c].pc = "done"]
    /\ UNCHANGED <<mvarsButCalls, sheetExists, sheetHeader, view, cvars>>

\* model.ts:26-32, 81 in the target Model: its header read has answered and
\* its data read is issued (the related sheet exists and has its header row)
RelatedHeaderRead(c) ==
    /\ calls[c].pc = "relatedHeaderRead"
    /\ calls' = [calls EXCEPT ![c].pc = "relatedDataRead",
                    ![c].relatedHeaders = remoteData.header]
    /\ UNCHANGED <<mvarsButCalls, svars, cvars>>

\* model.ts:81-96 in the target Model, then model.ts:174-187: the data read of
\* the related sheet has answered, the relation is attached to the results
RelatedDataRead(c) ==
    LET call == calls[c]
        relation == call.options.include[1]
        allRelatedRecords ==
            findManyOptions(relation.target, call.relatedHeaders, remoteData.rows,
                            EmptyObject, FindOptions(FALSE, <<>>, "", <<>>, <<>>))
    IN  /\ call.pc = "relatedDataRead"
        /\ calls' = [calls EXCEPT ![c].pc = "done",
                        ![c].result = [i \in 1..Len(call.result) |->
                            attachRelation(call.result[i], relation, allRelatedRecords)]]
        /\ UNCHANGED <<mvarsButCalls, svars, cvars>>

\* a remote call the operation is waiting for fails with err; the call it made
\* has changed nothing on the remote side (the operations before it in the
\* behaviour were not rejected)
RemoteFails(c, err) ==
    LET call == calls[c]
        swallowed == call.pc = "createSheet" /\ IsAlreadyExists(err)
    IN  /\ call.pc \notin {"idle", "done"}
        /\ \A d \in Calls \ {c} : calls[d].error = NoError
        /\ calls' = [calls EXCEPT ![c] =
                IF call.pc = "headerRead" \/ (call.pc = "headerWrite" /\ ~call.recovering)
                THEN EnsureHeadersCatch(call, call.pc, err)
                ELSE IF swallowed
                THEN CreateSheetDone(call, << Failure(call, call.pc, err) >>)
                ELSE Rejected(call, call.pc, err)]
        /\ headers' = IF swallowed THEN Keys(schema) ELSE headers
        /\ UNCHANGED <<schema, lastAutoIncrementValues, opCount, issued, allEmpty,
                       svars, cvars>>

----------------------------------------------------------------------------
\* Specifications

\* the TarangClient alone: reads and writes issued one after another
\* client.ts:10-26
InitClient ==
    /\ cache = <<>>
    /\ cacheTTL \in TTLChoices
    /\ maxCacheSize \in 0..MaxCap
    /\ now = 0
    /\ remoteData \in Payloads
    /\ written = {}
    /\ lastOp = Op("new", <<>>, FALSE, 0, <<>>, FALSE, FALSE)
    /\ NoSheet
    /\ NoModel

GetStep == \E range \in RangeStrings, delay \in 0..1 : getSheetValues(range, delay)
AppendStep == \E range \in RangeStrings, values \in Payloads \ {0} : appendValues(range, values)
UpdateValuesStep == \E range \in RangeStrings, values \in Payloads \ {0} : updateValues(range, values)
ClearStep == \E range \in RangeStrings : clearValues(range)

NextClient ==
    \/ GetStep
    \/ AppendStep
    \/ UpdateValuesStep
    \/ ClearStep
    \/ Tick

SpecClient == InitClient /\ [][NextClient]_vars

\* a client whose cache plays no part (the Model specifications answer reads
\* from view)
NoClient ==
    /\ cache = <<>>
    /\ cacheTTL = 0
    /\ maxCacheSize = 0
    /\ now = 1
    /\ remoteData = 0
    /\ written = {}
    /\ lastOp = Op("new", <<>>, FALSE, 0, <<>>, FALSE, FALSE)

\* data rows a sheet can hold at the start: a live row, a soft-deleted row and
\* a row whose trailing empty cell the remote read leaves out
RowChoices ==
    { <<"1", "a", "">>, <<"2", "a", "T0">>, <<"3", "b">> }

\* header rows a sheet can hold at the start: the schema's columns, or the
\* columns of a sheet made before the schema declared deletedAt, one of them
\* unknown to the schema
HeaderChoices == { Keys(UserSchema), <<"id", "name", "note">> }

Tables == UNION { [1..k -> RowChoices] : k \in 0..MaxRows }

\* the tables the create calls start from
GrowingTable == << <<"1", "a", "">>, <<"2", "a", "T0">>, <<"3", "b">>, <<"2", "b", "">> >>

\* the sheet is missing, or empty, or holds the header and some rows; the read
\* path shows the rows or is still behind
InitSheet(tables) ==
    \/ NoSheet
    \/ sheetExists = TRUE /\ sheetHeader = <<>> /\ sheetRows = <<>> /\ view = <<>>
    \/ /\ sheetExists = TRUE
       /\ sheetHeader \in HeaderChoices
       /\ sheetRows \in tables
       /\ view \in {sheetRows, <<>>}

\* model.ts:13-24
InitModel ==
    /\ NoClient
    /\ schema = UserSchema
    /\ headers = <<>>
    /\ lastAutoIncrementValues = EmptyObject
    /\ calls = [c \in Calls |-> Idle]
    /\ opCount = 0
    /\ issued = <<>>
    /\ allEmpty = TRUE

InitCreate ==
    /\ InitModel
    /\ InitSheet({ SubSeq(GrowingTable, 1, k) : k \in 0..MaxRows })

InitMutate ==
    /\ InitModel
    /\ InitSheet(Tables)
    /\ view = sheetRows

CreateInputs ==
    { [k \in {"name"} |-> StrV("a")],
      [k \in {"name"} |-> StrV("b")],
      [k \in {"id", "name"} |-> IF k = "id" THEN NumV(2) ELSE StrV("c")] }

Filters ==
    { EmptyObject,
      [k \in {"name"} |-> Literal(StrV("a"))],
      [k \in {"id"} |-> Operators([o \in {"gt"} |-> NumV(1)])] }

\* no operation is in flight
Quiet == \A c \in Calls : calls[c].pc \in {"idle", "done"}

UpdateInputs == { [k \in {"name"} |-> StrV("c")] }

CreateStep == \E c \in Calls, data \in CreateInputs : create(c, data)
UpdateStep ==
    \E c \in Calls, filter \in Filters, data \in UpdateInputs :
        Quiet /\ update(c, filter, data)
DeleteStep ==
    \E c \in Calls, filter \in Filters, force \in BOOLEAN :
        Quiet /\ delete(c, filter, force)

\* create calls on one Model, overlapping at their awaits
NextCreate ==
    \/ CreateStep
    \/ \E c \in Calls : HeaderRead(c)
    \/ \E c \in Calls : CreateSheetReturn(c)
    \/ \E c \in Calls : HeaderWrite(c)
    \/ \E c \in Calls : UniqueRead(c)
    \/ \E c \in Calls : AutoIncrementRead(c)
    \/ \E c \in Calls : AppendReturn(c)
    \/ Sync

SpecCreate == InitCreate /\ [][NextCreate]_vars

\* update and delete calls on one Model, one after another, on a sheet whose
\* read path may lag behind the writes
NextMutate ==
    \/ UpdateStep
    \/ DeleteStep
    \/ \E c \in Calls : HeaderRead(c)
    \/ \E c \in Calls : CreateSheetReturn(c)
    \/ \E c \in Calls : HeaderWrite(c)
    \/ \E c \in Calls : DataRead(c)
    \/ \E c \in Calls : ClearReturn(c)
    \/ \E c \in Calls : DataWrite(c)
    \/ Sync

SpecMutate == InitMutate /\ [][NextMutate]_vars

\* pairs of live rows that hold the same value in a column declared unique
LiveDuplicates(def, hdrs, rows) ==
    LET items == LiveItems(def, [i \in 1..Len(rows) |-> mapRowToObject(def, hdrs, rows[i])],
                           FALSE)
    IN  { p \in (1..Len(items)) \X (1..Len(items)) :
            /\ p[1] < p[2]
            /\ \E j \in 1..Len(def) :
                  /\ def[j].unique
                  /\ NotNullish(Get(items[p[1]], def[j].name))
                  /\ StrictEquals(Get(items[p[1]], def[j].name),
                                  Get(items[p[2]], def[j].name)) }

\* input batches of createMany: none, two different names, the same name
\* twice, a name with an explicit id
Batches ==
    { <<>>,
      << [k \in {"name"} |-> StrV("a")], [k \in {"name"} |-> StrV("b")] >>,
      << [k \in {"name"} |-> StrV("b")], [k \in {"name"} |-> StrV("b")] >>,
      << [k \in {"name"} |-> StrV("c")],
         [k \in {"id", "name"} |-> IF k = "id" THEN NumV(2) ELSE StrV("a")] >> }

\* create and createMany calls, one after another, on a store that starts
\* without duplicates and whose reads show every write that has returned
InitBatch ==
    /\ InitModel
    /\ InitSheet(Tables)
    /\ view = sheetRows
    /\ LiveDuplicates(schema, sheetHeader, sheetRows) = {}

\* the last operation has returned and the read path shows its write
Settled == Quiet /\ view = sheetRows

CreateOneStep == \E c \in Calls, data \in CreateInputs : Settled /\ create(c, data)
CreateManyStep == \E c \in Calls, data \in Batches : Settled /\ createMany(c, data)

NextBatch ==
    \/ CreateOneStep
    \/ CreateManyStep
    \/ \E c \in Calls : HeaderRead(c)
    \/ \E c \in Calls : CreateSheetReturn(c)
    \/ \E c \in Calls : HeaderWrite(c)
    \/ \E c \in Calls : UniqueRead(c)
    \/ \E c \in Calls : AutoIncrementRead(c)
    \/ \E c \in Calls : AppendReturn(c)
    \/ Sync

SpecBatch == InitBatch /\ [][NextBatch]_vars

\* the arguments of upsert: where, update, create
UpsertArgs ==
    { << [k \in {"name"} |-> Literal(StrV("a"))],
         [k \in {"name"} |-> StrV("c")],
         [k \in {"name"} |-> StrV("a")] >>,
      << [k \in {"id"} |-> Operators([o \in {"gt"} |-> NumV(1)])],
         [k \in {"name"} |-> StrV("c")],
         [k \in {"name"} |-> StrV("b")] >> }

\* upsert calls, one after another, with nothing else touching the store
InitUpsert ==
    /\ InitModel
    /\ InitSheet(Tables)
    /\ view = sheetRows

UpsertStep ==
    \E c \in Calls, args \in UpsertArgs : Settled /\ upsert(c, args[1], args[2], args[3])

NextUpsert ==
    \/ UpsertStep
    \/ \E c \in Calls : HeaderRead(c)
    \/ \E c \in Calls : CreateSheetReturn(c)
    \/ \E c \in Calls : HeaderWrite(c)
    \/ \E c \in Calls : DataRead(c)
    \/ \E c \in Calls : UniqueRead(c)
    \/ \E c \in Calls : AutoIncrementRead(c)
    \/ \E c \in Calls : AppendReturn(c)
    \/ \E c \in Calls : DataWrite(c)
    \/ Sync

SpecUpsert == InitUpsert /\ [][NextUpsert]_vars

\* findMany and findFirst calls between deletes, one after another, each read
\* showing the writes that returned
FindStep ==
    \E c \in Calls, filter \in Filters :
        /\ Settled
        /\ \/ \E includeDeleted \in BOOLEAN :
                 findManyCall(c, filter, FindOptions(includeDeleted, <<>>, "", <<>>, <<>>))
           \/ findFirst(c, filter, FindOptions(FALSE, <<>>, "", <<>>, <<>>))

NextFind ==
    \/ FindStep
    \/ DeleteStep
    \/ \E c \in Calls : HeaderRead(c)
    \/ \E c \in Calls : CreateSheetReturn(c)
    \/ \E c \in Calls : HeaderWrite(c)
    \/ \E c \in Calls : DataRead(c)
    \/ \E c \in Calls : ClearReturn(c)
    \/ \E c \in Calls : DataWrite(c)
    \/ Sync

SpecFind == InitMutate /\ [][NextFind]_vars

\* the schema of tests/model_comprehensive.test.ts, without the email column
QuerySchema ==
    << [Column("id", "number") EXCEPT !.autoIncrement = TRUE],
       Column("name", "string"),
       Column("age", "number") >>

\* rows of that table (ages in single digits): two of one age, one without an
\* age, one whose age cell holds a text that is no number
QueryRows ==
    { <<"1", "ab", "3">>, <<"2", "b", "5">>, <<"3", "a", "3">>, <<"4", "Ab">>,
      <<"5", "c", "x">> }

\* the four rows of the test data, with ages 2, 3, 4, 5 for 20, 25, 30, 35
AgesTable ==
    << <<"1", "ab", "3">>, <<"2", "b", "4">>, <<"3", "a", "5">>, <<"4", "Ab", "2">> >>

QueryFilters ==
    { EmptyObject,
      [k \in {"age"} |-> Literal(NumV(3))],
      [k \in {"age"} |-> Operators([o \in {"gt"} |-> NumV(3)])],
      [k \in {"age"} |-> Operators([o \in {"gte", "lte"} |->
                                        IF o = "gte" THEN NumV(2) ELSE NumV(3)])],
      [k \in {"age"} |-> Operators([o \in {"lt", "ne"} |->
                                        IF o = "lt" THEN NumV(5) ELSE NumV(2)])],
      [k \in {"age"} |-> Operators([o \in {"ne"} |-> NumV(3)])],
      [k \in {"age", "name"} |-> IF k = "age" THEN Operators([o \in {"gte"} |-> NumV(3)])
                                                ELSE Literal(StrV("a"))] }

QueryOptions ==
    { FindOptions(FALSE, sort[1], sort[2], skip, limit) :
        sort \in { <<<<>>, "">>, <<<<"age">>, "">>, <<<<"age">>, "asc">>,
                   <<<<"age">>, "desc">> },
        skip \in {<<>>, <<0>>, <<1>>, <<2>>},
        limit \in {<<>>, <<0>>, <<1>>, <<2>>} }

\* one findMany or findFirst on a table that has its header row
InitQuery ==
    /\ NoClient
    /\ schema = QuerySchema
    /\ headers = <<>>
    /\ lastAutoIncrementValues = EmptyObject
    /\ calls = [c \in Calls |-> Idle]
    /\ opCount = 0
    /\ issued = <<>>
    /\ allEmpty = TRUE
    /\ sheetExists = TRUE
    /\ sheetHeader = Keys(QuerySchema)
    /\ sheetRows \in {AgesTable} \cup UNION { [1..k -> QueryRows] : k \in 0..MaxRows }
    /\ view = sheetRows

\* (a comparator that is not consistent leaves the order to the engine's sort:
\* rows are sorted on a column that holds numbers or nothing)
QueryStep ==
    \E filter \in QueryFilters, options \in QueryOptions :
        /\ opCount = 0
        /\ options.sortBy # <<>> =>
              \A i \in 1..Len(sheetRows) :
                  Get(mapRowToObject(schema, sheetHeader, sheetRows[i]),
                      options.sortBy[1]) # NaNV
        /\ \/ findManyCall(1, filter, options)
           \/ findFirst(1, filter, options)

NextQuery ==
    \/ QueryStep
    \/ \E c \in Calls : HeaderRead(c)
    \/ \E c \in Calls : DataRead(c)

SpecQuery == InitQuery /\ [][NextQuery]_vars

\* the schemas of tests/relations.test.ts: users are PlainSchema
PostSchema ==
    << [Column("id", "number") EXCEPT !.autoIncrement = TRUE],
       Column("title", "string"),
       Column("userId", "number") >>

\* this.relations of the Model a relation is declared on (source), with the
\* schema of its targetModel
Relations ==
    { [name |-> "posts", type |-> "hasMany", source |-> PlainSchema, target |-> PostSchema,
       foreignKey |-> "userId", localKey |-> "id"],
      [name |-> "post", type |-> "hasOne", source |-> PlainSchema, target |-> PostSchema,
       foreignKey |-> "userId", localKey |-> "id"],
      [name |-> "author", type |-> "belongsTo", source |-> PostSchema, target |-> PlainSchema,
       foreignKey |-> "id", localKey |-> "userId"] }

\* the rows of the two sheets: users with the ids 1, 2, 0 and none; posts of
\* the users 1, 1, 2, 0 and of none
RelatedRows(def) ==
    IF def = PlainSchema
    THEN { <<"1", "a">>, <<"2", "b">>, <<"0", "c">>, <<"", "d">> }
    ELSE { <<"1", "p", "1">>, <<"2", "q", "1">>, <<"3", "r", "2">>, <<"4", "s", "0">>,
           <<"5", "t">> }

\* one findMany with an included relation; remoteData is what the remote
\* answers for the related sheet
InitRelations ==
    \E relation \in Relations :
        /\ cache = <<>> /\ cacheTTL = 0 /\ maxCacheSize = 0 /\ now = 1
        /\ written = {}
        /\ lastOp = Op("new", <<>>, FALSE, 0, <<>>, FALSE, FALSE)
        /\ remoteData \in
              { [header |-> Keys(relation.target), rows |-> rows] :
                  rows \in UNION { [1..k -> RelatedRows(relation.target)] : k \in 0..MaxRows } }
        /\ schema = relation.source
        /\ headers = <<>>
        /\ lastAutoIncrementValues = EmptyObject
        /\ calls = [c \in Calls |-> Idle]
        /\ opCount = 0
        /\ issued = <<>>
        /\ allEmpty = TRUE
        /\ sheetExists = TRUE
        /\ sheetHeader = Keys(relation.source)
        /\ sheetRows \in UNION { [1..k -> RelatedRows(relation.source)] : k \in 0..MaxRows }
        /\ view = sheetRows

RelationStep ==
    \E relation \in Relations, limit \in {<<>>, <<1>>} :
        /\ opCount = 0
        /\ relation.source = schema
        /\ findManyCall(1, EmptyObject,
                [FindOptions(FALSE, <<>>, "", <<>>, limit) EXCEPT !.include = <<relation>>])

NextRelations ==
    \/ RelationStep
    \/ \E c \in Calls : HeaderRead(c)
    \/ \E c \in Calls : DataRead(c)
    \/ \E c \in Calls : RelatedHeaderRead(c)
    \/ \E c \in Calls : RelatedDataRead(c)

SpecRelations == InitRelations /\ [][NextRelations]_vars

\* the failures a remote call is made to raise
Failures ==
    { Error(500, <<"Internal error">>),
      TableMissing,
      Error(400, <<"Invalid values", "[0][0]">>),
      AlreadyExists,
      Error(404, <<"Unable to parse range", ": Users!A1:Z1">>) }

\* create, update and forced delete calls, one after another, any of whose
\* remote calls may fail
InitErrors ==
    /\ InitModel
    /\ InitSheet({ <<>>, << <<"1", "a", "">>, <<"3", "b">> >> })
    /\ sheetHeader \in {<<>>, Keys(UserSchema)}
    /\ view = sheetRows

CallStep ==
    \E c \in Calls :
        /\ Quiet
        /\ \/ create(c, [k \in {"name"} |-> StrV("c")])
           \/ update(c, [k \in {"name"} |-> Literal(StrV("a"))], [k \in {"name"} |-> StrV("c")])
           \/ delete(c, [k \in {"name"} |-> Literal(StrV("a"))], TRUE)

NextErrors ==
    \/ CallStep
    \/ \E c \in Calls : HeaderRead(c)
    \/ \E c \in Calls : CreateSheetReturn(c)
    \/ \E c \in Calls : HeaderWrite(c)
    \/ \E c \in Calls : UniqueRead(c)
    \/ \E c \in Calls : AutoIncrementRead(c)
    \/ \E c \in Calls : AppendReturn(c)
    \/ \E c \in Calls : DataRead(c)
    \/ \E c \in Calls : ClearReturn(c)
    \/ \E c \in Calls : DataWrite(c)
    \/ \E c \in Calls, err \in Failures : RemoteFails(c, err)
    \/ Sync

SpecErrors == InitErrors /\ [][NextErrors]_vars

\* hard deletes, one after another, on a Model whose schema has a soft-delete
\* column (with force) or has none
InitHard ==
    /\ NoClient
    /\ schema \in {UserSchema, PlainSchema}
    /\ headers = <<>>
    /\ lastAutoIncrementValues = EmptyObject
    /\ calls = [c \in Calls |-> Idle]
    /\ opCount = 0
    /\ issued = <<>>
    /\ allEmpty = TRUE
    /\ InitSheet(Tables)
    /\ view = sheetRows

HardDeleteStep ==
    \E c \in Calls, filter \in Filters, force \in BOOLEAN :
        /\ Quiet
        /\ force = (getDeletedAtField(schema) # <<>>)
        /\ delete(c, filter, force)

NextHard ==
    \/ HardDeleteStep
    \/ \E c \in Calls : HeaderRead(c)
    \/ \E c \in Calls : CreateSheetReturn(c)
    \/ \E c \in Calls : HeaderWrite(c)
    \/ \E c \in Calls : DataRead(c)
    \/ \E c \in Calls : ClearReturn(c)
    \/ \E c \in Calls : DataWrite(c)
    \/ Sync

SpecHard == InitHard /\ [][NextHard]_vars

----------------------------------------------------------------------------
\* Claims about the client cache (checked under SpecClient)

\* C3: after appendValues, updateValues or clearValues on a range of sheet T
\* has returned, and until a range of T is read again, the cache holds no entry
\* whose key starts with T's name followed by '!'; so a getSheetValues on a
\* range of T that follows such a write is not served from the cache.
C3_WriteInvalidatesSheet ==
    /\ \A T \in written : \A i \in 1..Len(cache) :
            ~StartsWith(cache[i].key, T \o <<"!">>)
    /\ (lastOp.op = "get" /\ lastOp.afterWrite) => ~lastOp.hit

\* a write has just removed the entries of two different ranges of its sheet
C3_Witness ==
    /\ lastOp.op \in WriteOps
    /\ Len(lastOp.evicted) >= 2
    /\ \E i \in 1..Len(lastOp.evicted) : lastOp.evicted[i].key # lastOp.range

\* C4: with cacheTTL > 0, a getSheetValues(range) made while an entry for
\* exactly that range exists and now - timestamp < cacheTTL is served from the
\* cache: no remote read, the cache is left as it is, and the payload returned
\* is the one the entry holds.
C4_FreshEntryServed ==
    [][\A i \in 1..Len(cache) :
          ( /\ lastOp'.op = "get"
            /\ lastOp'.range = cache[i].key
            /\ cacheTTL > 0
            /\ now - cache[i].timestamp < cacheTTL )
          => ( /\ lastOp'.hit
               /\ lastOp'.data = cache[i].data
               /\ cache' = cache
               /\ now' = now )]_vars

\* a read was served from the cache although the remote content has changed
C4_Witness ==
    /\ lastOp.op = "get"
    /\ lastOp.hit
    /\ lastOp.data # remoteData
    /\ \E i \in 1..Len(cache) : cache[i].key = lastOp.range /\ now > cache[i].timestamp

\* C5: a write to a range of sheet T removes no cache entry of another sheet,
\* also when T's name is a string prefix of the other sheet's name; those
\* entries keep their payload and timestamp.
C5_OtherSheetsKept ==
    [][lastOp'.op \in WriteOps =>
          \A i \in 1..Len(cache) :
              SheetNameOf(cache[i].key) # SheetNameOf(lastOp'.range)
              => \E j \in 1..Len(cache') : cache'[j] = cache[i]]_vars

\* a write to sheet S removed an entry of S and left an entry of sheet S1
C5_Witness ==
    /\ lastOp.op \in WriteOps
    /\ SheetNameOf(lastOp.range) = <<"S">>
    /\ lastOp.evicted # <<>>
    /\ \E i \in 1..Len(cache) : SheetNameOf(cache[i].key) = <<"S", "1">>

\* C6: an entry is served only while now - timestamp < cacheTTL; a
\* getSheetValues for a range whose entry has now - timestamp >= cacheTTL
\* issues a remote read, and the entry then holds the payload just read and the
\* time of the store.
C6_ExpiredEntryRefetched ==
    [][\A i \in 1..Len(cache) :
          (lastOp'.op = "get" /\ lastOp'.range = cache[i].key /\ cacheTTL > 0)
          => /\ lastOp'.hit => now - cache[i].timestamp < cacheTTL
             /\ now - cache[i].timestamp >= cacheTTL
                => /\ ~lastOp'.hit
                   /\ lastOp'.data = remoteData
                   /\ \E j \in 1..Len(cache') :
                          cache'[j] = Entry(cache[i].key, remoteData, now')]_vars

\* an entry that was present but expired has been replaced by a fresh read
C6_Witness ==
    /\ lastOp.op = "get"
    /\ ~lastOp.hit
    /\ lastOp.replaced
    /\ \E i \in 1..Len(cache) :
          cache[i] = Entry(lastOp.range, lastOp.data, now) /\ now >= cacheTTL

\* C7 (as claimed): with caching enabled the cache never holds more than
\* maxCacheSize entries, for any configured maxCacheSize.
C7_SizeWithinMax ==
    cacheTTL > 0 => Len(cache) <= maxCacheSize

\* C8 (as claimed): whenever a store evicts an entry, the evicted entry has the
\* smallest timestamp among the entries present.
C8_EvictsOldestTimestamp ==
    [][(lastOp'.op = "get" /\ lastOp'.evicted # <<>>) =>
          \A i \in 1..Len(cache) :
              lastOp'.evicted[1].timestamp <= cache[i].timestamp]_vars

----------------------------------------------------------------------------
\* Claims about create (checked under SpecCreate)

\* C1: every auto-increment value a Model generates is greater than every
\* value it generated before, whatever rows the reads answered; and when every
\* such read answered no rows, the k-th generated value is k.
C1_AutoIncrementIncreases ==
    /\ \A i, j \in 1..Len(issued) : i < j => issued[i] < issued[j]
    /\ allEmpty => \A k \in 1..Len(issued) : issued[k] = k

\* two values were generated from reads that answered nothing although the
\* sheet already holds a row
C1_Witness ==
    /\ Len(issued) >= 2
    /\ allEmpty
    /\ sheetRows # <<>>
    /\ view = <<>>

\* C2: create calls of one Model that overlap at their awaits never receive
\* the same auto-increment value.
C2_NoSharedAutoIncrement ==
    \A c1, c2 \in Calls :
        (c1 # c2 /\ calls[c1].op = "create" /\ calls[c2].op = "create")
        => \A i \in 1..Len(calls[c1].generated), j \in 1..Len(calls[c2].generated) :
               calls[c1].generated[i] # calls[c2].generated[j]

\* two create calls hold their generated value while both wait for their append
C2_Witness ==
    \E c1, c2 \in Calls :
        /\ c1 # c2
        /\ calls[c1].pc = "append" /\ calls[c1].generated # <<>>
        /\ calls[c2].pc = "append" /\ calls[c2].generated # <<>>

----------------------------------------------------------------------------
\* Claims about update and delete (checked under SpecMutate)

\* the remote calls of an operation that touch the data rows (ensureHeaders'
\* createSheet and header write left out)
DataCalls(call) ==
    SelectSeq(call.wrote, LAMBDA w : w.op # "createSheet" /\ w.range # "A1")

\* the rows read by an operation that are live and match its filter
MatchingLive(call) ==
    { i \in 1..Len(call.rows) :
        LET item == mapRowToObject(schema, headers, call.rows[i])
        IN  /\ \A j \in 1..Len(schema) :
                  (schema[j].type = "date" /\ schema[j].isDeletedAt)
                  => ~Truthy(Get(item, schema[j].name))
            /\ matchesFilter(item, call.filter) }

C10_SoftDeleteStampsInPlace ==
    \A c \in Calls :
        ( /\ calls[c].op = "delete"
          /\ ~calls[c].force
          /\ \E j \in 1..Len(schema) : schema[j].type = "date" /\ schema[j].isDeletedAt
          /\ calls[c].pc \in {"dataWrite", "done"} )
        => /\ \A k \in 1..Len(calls[c].wrote) : calls[c].wrote[k].op # "clearValues"
           /\ IF MatchingLive(calls[c]) # {}
              THEN /\ Len(DataCalls(calls[c])) = 1
                   /\ DataCalls(calls[c])[1].op = "updateValues"
                   /\ DataCalls(calls[c])[1].range = "A2"
                   /\ Len(DataCalls(calls[c])[1].values) = Len(calls[c].rows)
                   /\ \A i \in 1..Len(calls[c].rows) :
                        LET newRow == DataCalls(calls[c])[1].values[i]
                        IN  IF i \in MatchingLive(calls[c])
                            THEN \E j \in 1..Len(headers) :
                                    /\ j <= Len(newRow)
                                    /\ \E k \in 1..Len(schema) :
                                          /\ schema[k].type = "date"
                                          /\ schema[k].isDeletedAt
                                          /\ schema[k].name = headers[j]
                                    /\ newRow[j] # ""
                            ELSE newRow = calls[c].rows[i]
              ELSE DataCalls(calls[c]) = <<>>

\* the rows read by an operation that match its filter, deleted or not
Matching(call) ==
    { i \in 1..Len(call.rows) :
        matchesFilter(mapRowToObject(schema, headers, call.rows[i]), call.filter) }

\* the rows read by an operation that do not match its filter, in order
NonMatching(call) ==
    SelectSeq(call.rows, LAMBDA row :
        ~matchesFilter(mapRowToObject(schema, headers, row), call.filter))

\* the rows read by an operation whose soft-delete column holds a value
SoftDeleted(call) ==
    { i \in 1..Len(call.rows) :
        \E j \in 1..Len(schema) :
            /\ schema[j].type = "date" /\ schema[j].isDeletedAt
            /\ Get(mapRowToObject(schema, headers, call.rows[i]), schema[j].name)
                  \notin {Null, Undefined} }

\* C12: update leaves every row whose soft-delete column is non-null as it was
\* read and returns no such row, also when the row matches the filter; it
\* returns one row per matching live row.
C12_UpdateSkipsSoftDeleted ==
    \A c \in Calls :
        (calls[c].op = "update" /\ calls[c].pc \in {"dataWrite", "done"})
        => /\ \A i \in SoftDeleted(calls[c]) :
                 \A k \in 1..Len(calls[c].wrote) :
                     calls[c].wrote[k].range = "A2"
                     => calls[c].wrote[k].values[i] = calls[c].rows[i]
           /\ \A k \in 1..Len(calls[c].result) :
                 \A j \in 1..Len(schema) :
                     (schema[j].type = "date" /\ schema[j].isDeletedAt)
                     => Get(calls[c].result[k], schema[j].name) \in {Null, Undefined}
           /\ Len(calls[c].result) =
                 Cardinality(Matching(calls[c]) \ SoftDeleted(calls[c]))

\* an update whose filter matches a live and a soft-deleted row has written
\* the range back and landed, the soft-deleted row as it was
C12_Witness ==
    \E c \in Calls :
        /\ calls[c].op = "update"
        /\ calls[c].pc = "done"
        /\ calls[c].result # <<>>
        /\ \E i \in SoftDeleted(calls[c]) :
              /\ i \in Matching(calls[c])
              /\ calls[c].pending[i] = calls[c].rows[i]
              /\ i <= Len(sheetRows) /\ sheetRows[i] = calls[c].rows[i]

\* the rows whose soft-delete cell was empty when read and is filled in the
\* rows the operation writes back
Stamped(call) ==
    { i \in 1..Len(call.pending) :
        \E j \in 1..Len(headers) :
            /\ \E k \in 1..Len(schema) :
                  /\ schema[k].type = "date" /\ schema[k].isDeletedAt
                  /\ schema[k].name = headers[j]
            /\ j <= Len(call.pending[i]) /\ call.pending[i][j] # ""
            /\ j > Len(call.rows[i]) \/ call.rows[i][j] = "" }

\* a delete that takes the soft path
IsSoftDelete(call) ==
    /\ call.op = "delete"
    /\ ~call.force
    /\ \E j \in 1..Len(schema) : schema[j].type = "date" /\ schema[j].isDeletedAt

\* C13 (as claimed): a soft delete returns the number of rows it newly stamped;
\* and the same delete(filter) repeated on the rows the first one left returns
\* 0 and issues no remote write.
C13_SoftDeleteIdempotent ==
    /\ \A c \in Calls :
          (IsSoftDelete(calls[c]) /\ calls[c].pc \in {"dataWrite", "done"})
          => calls[c].count = Cardinality(Stamped(calls[c]))
    /\ \A c1, c2 \in Calls :
          ( /\ c1 < c2
            /\ IsSoftDelete(calls[c1]) /\ calls[c1].pc = "done"
            /\ IsSoftDelete(calls[c2]) /\ calls[c2].pc \in {"dataWrite", "done"}
            /\ calls[c2].filter = calls[c1].filter
            /\ calls[c2].rows = IF calls[c1].pending # <<>> THEN calls[c1].pending
                                                             ELSE calls[c1].rows )
          => calls[c2].count = 0 /\ DataCalls(calls[c2]) = <<>>

----------------------------------------------------------------------------
\* Claims about hard delete (checked under SpecHard)

\* C11: a delete with force, or on a schema without a soft-delete column, that
\* matches at least one row first issues clearValues on <sheet>!A2:Z and then,
\* only if some rows do not match, one updateValues on <sheet>!A2 carrying
\* exactly the non-matching rows in order; it returns the number of matching
\* rows.  With no matching row it issues neither call and returns 0.
C11_HardDeleteClearsThenWritesKept ==
    \A c \in Calls :
        ( /\ calls[c].op = "delete"
          /\ calls[c].force \/ getDeletedAtField(schema) = <<>>
          /\ calls[c].pc \in {"clear", "dataWrite", "done"} )
        => LET call == calls[c]
               clear == RemoteCall("clearValues", "A2:Z", <<>>)
               write == RemoteCall("updateValues", "A2", NonMatching(call))
           IN  IF Matching(call) # {}
               THEN /\ call.count = Cardinality(Matching(call))
                    /\ call.pc = "clear" => DataCalls(call) = <<clear>>
                    /\ call.pc = "dataWrite" =>
                           NonMatching(call) # <<>> /\ DataCalls(call) = <<clear, write>>
                    /\ call.pc = "done" =>
                           DataCalls(call) = IF NonMatching(call) # <<>>
                                             THEN <<clear, write>> ELSE <<clear>>
               ELSE call.count = 0 /\ call.pc = "done" /\ DataCalls(call) = <<>>

\* a forced delete has removed a soft-deleted row and written back the row
\* that did not match
C11_Witness ==
    \E c \in Calls :
        /\ calls[c].op = "delete"
        /\ calls[c].force
        /\ calls[c].pc = "done"
        /\ calls[c].count = 1
        /\ calls[c].rows = << <<"2", "a", "T0">>, <<"3", "b">> >>
        /\ Len(calls[c].wrote) = 2
        /\ calls[c].pending = << <<"3", "b">> >>
        /\ sheetRows = calls[c].pending

----------------------------------------------------------------------------
\* Claims about create and createMany (checked under SpecBatch)

\* the remote appends an operation has issued
Appends(call) == SelectSeq(call.wrote, LAMBDA w : w.op = "appendValues")

\* an input row of the operation holds, in a column declared unique, the value
\* of a live row among the rows the operation read
Collides(call) ==
    \E k \in 1..Len(call.inputs), j \in 1..Len(schema) :
        /\ schema[j].unique
        /\ schema[j].name \in DOMAIN call.inputs[k]
        /\ \E i \in 1..Len(call.rows) :
              LET item == mapRowToObject(schema, headers, call.rows[i])
              IN  /\ \A d \in 1..Len(schema) :
                        (schema[d].type = "date" /\ schema[d].isDeletedAt)
                        => Get(item, schema[d].name) \in {Null, Undefined}
                  /\ Get(item, schema[j].name) = call.inputs[k][schema[j].name]

\* C14: a create or createMany given a row whose value on a unique column
\* equals that of an existing live row rejects with the uniqueness violation,
\* issues no appendValues and returns no row.
C14_UniqueViolationBeforeAppend ==
    \A c \in Calls :
        (calls[c].op \in {"create", "createMany"} /\ Collides(calls[c]))
        => /\ Appends(calls[c]) = <<>>
           /\ calls[c].pc \notin {"append"}
           /\ calls[c].pc = "done" =>
                 calls[c].error = UniqueViolation /\ calls[c].result = <<>>

\* a createMany has been rejected at its second row, after its first row was
\* validated and given an id, and the sheet holds what it held
C14_Witness ==
    \E c \in Calls :
        /\ calls[c].op = "createMany"
        /\ calls[c].pc = "done"
        /\ calls[c].error = UniqueViolation
        /\ calls[c].generated # <<>>
        /\ Len(calls[c].created) = 1
        /\ sheetRows = calls[c].rows

\* C15 (as claimed): on a store that started without duplicates and whose
\* reads reflect every completed write, after any sequence of create and
\* createMany calls no two live rows hold the same value in a unique column.
C15_UniqueAmongLiveRows ==
    headers # <<>> => LiveDuplicates(schema, headers, sheetRows) = {}

\* createMany has issued nothing while rows are still being prepared and then
\* one appendValues on <sheet>!A:A carrying, in input order, the encoding of
\* each input row filled with its defaults
OneAppendOfAllRows(call) ==
    /\ call.pc \in {"uniqueRead", "autoIncrementRead"} => Appends(call) = <<>>
    /\ call.pc \in {"append", "done"} =>
          /\ call.batch = <<>>
          /\ Len(Appends(call)) = 1
          /\ Appends(call)[1].range = "A:A"
          /\ Len(Appends(call)[1].values) = Len(call.inputs)
          /\ Len(call.created) = Len(call.inputs)
          /\ \A k \in 1..Len(call.inputs) :
                /\ Appends(call)[1].values[k] = mapObjectToRow(headers, call.created[k])
                /\ \A key \in DOMAIN call.inputs[k] :
                      call.created[k][key] = call.inputs[k][key]

\* C16 (as claimed): createMany, for any batch of input rows, issues exactly
\* one appendValues call, after every row has been validated and filled,
\* carrying one encoded row per input row in input order.
C16_OneAppendForAnyBatch ==
    \A c \in Calls :
        ( /\ calls[c].op = "createMany"
          /\ calls[c].error = NoError
          /\ calls[c].pc \in {"uniqueRead", "autoIncrementRead", "append", "done"} )
        => OneAppendOfAllRows(calls[c])

\* C16 (amended): createMany, for any non-empty batch of input rows, issues
\* exactly one appendValues call, after every row has been validated and
\* filled, carrying one encoded row per input row in input order; for the
\* empty batch it issues no appendValues and returns no row.
C16_OneAppendForNonEmptyBatch ==
    \A c \in Calls :
        ( /\ calls[c].op = "createMany"
          /\ calls[c].error = NoError
          /\ calls[c].pc \in {"uniqueRead", "autoIncrementRead", "append", "done"} )
        => IF calls[c].inputs # <<>>
           THEN OneAppendOfAllRows(calls[c])
           ELSE /\ calls[c].pc = "done"
                /\ calls[c].wrote = SelectSeq(calls[c].wrote, LAMBDA w : w.range # "A:A")
                /\ calls[c].result = <<>>

\* a createMany of two rows has returned them and the sheet ends with their
\* two encoded rows, in input order
C16_Witness ==
    \E c \in Calls :
        /\ calls[c].op = "createMany"
        /\ calls[c].pc = "done"
        /\ Len(calls[c].result) = 2
        /\ calls[c].result[1].name # calls[c].result[2].name
        /\ Len(sheetRows) >= 2
        /\ SubSeq(sheetRows, Len(sheetRows) - 1, Len(sheetRows))
              = [k \in 1..2 |-> mapObjectToRow(headers, calls[c].result[k])]

----------------------------------------------------------------------------
\* Claims about upsert (checked under SpecUpsert)

----------------------------------------------------------------------------
\* Claims about remote failures (checked under SpecErrors)

\* the failures an operation met after the first were 'already exists' answers
\* to its createSheet
OnlySwallowedSince(call) ==
    \A i \in 2..Len(call.failed) :
        /\ call.failed[i].at = "createSheet"
        /\ call.failed[i].error.code = 400
        /\ Includes(call.failed[i].error.message, "already exists")

\* C18: an operation whose header read failed with code 400 and a message
\* containing 'Unable to parse range' calls createSheet next; unless another
\* remote call of it fails (an 'already exists' answer to createSheet does not
\* count), it is not rejected, its next remote write is the one header row of
\* the schema's keys in declaration order at A1, and it then goes on: a create
\* appends and returns its row, an update or delete reads the data rows and
\* writes them when some match.
C18_MissingTableIsCreated ==
    \A c \in Calls :
        LET call == calls[c]
        IN  (/\ call.failed # <<>>
             /\ call.failed[1].at = "headerRead"
             /\ call.failed[1].error.code = 400
             /\ Includes(call.failed[1].error.message, "Unable to parse range"))
            => /\ call.wrote[1] = RemoteCall("createSheet", "", <<>>)
               /\ OnlySwallowedSince(call) =>
                    /\ call.error = NoError
                    /\ call.pc # "createSheet" =>
                          /\ Len(call.wrote) >= 2
                          /\ call.wrote[2] = RemoteCall("updateValues", "A1",
                                << [i \in 1..Len(schema) |-> schema[i].name] >>)
                    /\ (call.pc = "done" /\ call.op = "create") =>
                          /\ Len(call.wrote) = 3
                          /\ call.wrote[3].op = "appendValues"
                          /\ Len(call.result) = 1
                    /\ (call.pc = "done" /\ call.op = "update") =>
                          (DataCalls(call) # <<>>) = (MatchingLive(call) # {})
                    /\ (call.pc = "done" /\ call.op = "delete") =>
                          (DataCalls(call) # <<>>) = (Matching(call) # {})

\* a create found no tab, created it, wrote the header and stored its row
C18_Witness ==
    \E c \in Calls :
        /\ calls[c].op = "create" /\ calls[c].pc = "done"
        /\ calls[c].failed = << [error |-> TableMissing, at |-> "headerRead", after |-> 0] >>
        /\ Len(calls[c].wrote) = 3
        /\ calls[c].result # <<>>
        /\ sheetExists
        /\ sheetHeader = <<"id", "name", "deletedAt">>
        /\ Len(sheetRows) = 1

\* the failure is the last the operation met, the operation ended with it as
\* its error and has issued no remote write since; being ended it issues no
\* remote call at all
Propagated(call, i) ==
    /\ i = Len(call.failed)
    /\ call.pc = "done"
    /\ call.error = call.failed[i].error
    /\ Len(call.wrote) = call.failed[i].after

\* C19: every failure of a remote call reaches the caller as the error the
\* operation ends with, and the operation issues no remote call after it,
\* unless it is a failure with code 400 and a table-missing message ('Unable to
\* parse range' or 'Invalid values') met while resolving the header, or a
\* failure with code 400 and 'already exists' met by createSheet.
C19_UnrecognizedFailuresPropagate ==
    \A c \in Calls : \A i \in 1..Len(calls[c].failed) :
        LET f == calls[c].failed[i]
        IN  \/ /\ f.at \in {"headerRead", "headerWrite"}
               /\ f.error.code = 400
               /\ \/ Includes(f.error.message, "Unable to parse range")
                  \/ Includes(f.error.message, "Invalid values")
            \/ /\ f.at = "createSheet"
               /\ f.error.code = 400
               /\ Includes(f.error.message, "already exists")
            \/ Propagated(calls[c], i)

\* a create that recovered from the missing tab was rejected by the failure of
\* its append, and nothing was stored
C19_Witness ==
    \E c \in Calls :
        /\ calls[c].op = "create" /\ calls[c].pc = "done"
        /\ Len(calls[c].failed) = 2
        /\ calls[c].failed[1].at = "headerRead"
        /\ calls[c].failed[2] = [error |-> Error(500, <<"Internal error">>),
                                  at |-> "append", after |-> 3]
        /\ calls[c].error = Error(500, <<"Internal error">>)
        /\ sheetRows = <<>>

----------------------------------------------------------------------------
\* Claims about reads of soft-deleted rows (checked under SpecFind)

\* the objects of the rows at the given positions of the rows an operation
\* read, in order
ItemsAt(call, positions) ==
    LET RECURSIVE from(_)
        from(i) == IF i > Len(call.rows) THEN <<>>
                   ELSE (IF i \in positions
                         THEN <<mapRowToObject(schema, headers, call.rows[i])>>
                         ELSE <<>>) \o from(i + 1)
    IN  from(1)

\* C20 (as claimed): findMany without includeDeleted returns the matching rows
\* whose soft-delete column is null and no other (findFirst the first of them);
\* findMany with includeDeleted returns every matching row, the soft-deleted
\* among them; and a default findMany or findFirst that reads the rows a soft
\* delete left returns none of the rows that delete counted as deleted.
C20_SoftDeletedRowsAreHidden ==
    /\ \A c \in Calls :
          LET call == calls[c]
          IN  (call.pc = "done" /\ call.op \in {"findMany", "findFirst"})
              => /\ ~call.includeDeleted =>
                      \A k \in 1..Len(call.result) :
                          Get(call.result[k], "deletedAt") \in {Null, Undefined}
                 /\ call.op = "findMany" =>
                      call.result = ItemsAt(call,
                            IF call.includeDeleted THEN Matching(call)
                            ELSE Matching(call) \ SoftDeleted(call))
                 /\ call.op = "findFirst" =>
                      LET live == ItemsAt(call, Matching(call) \ SoftDeleted(call))
                      IN  call.result = IF live = <<>> THEN <<>> ELSE <<live[1]>>
    /\ \A c1, c2 \in Calls :
          ( /\ c1 < c2
            /\ IsSoftDelete(calls[c1]) /\ calls[c1].pc = "done" /\ calls[c1].count > 0
            /\ calls[c2].pc = "done" /\ calls[c2].op \in {"findMany", "findFirst"}
            /\ ~calls[c2].includeDeleted
            /\ calls[c2].rows = calls[c1].pending )
          => \A i \in MatchingLive(calls[c1]) : \A k \in 1..Len(calls[c2].result) :
                calls[c2].result[k] # mapRowToObject(schema, headers, calls[c2].rows[i])

----------------------------------------------------------------------------
\* Claims about queries (checked under SpecQuery)

\* C21: findFirst(filter, options) returns the first element of what
\* findMany(filter, {...options, limit: 1}) returns on the same rows, and null
\* (no row) when that list is empty; it is not rejected when nothing matches.
C21_FindFirstIsFindManyLimitOne ==
    \A c \in Calls :
        (calls[c].op = "findFirst" /\ calls[c].pc = "done")
        => LET call == calls[c]
               list == findManyOptions(schema, headers, call.rows, call.filter,
                                       [call.options EXCEPT !.limit = <<1>>])
           IN  /\ call.error = NoError
               /\ Len(list) <= 1
               /\ call.result = list

\* findFirst with a sort and a skip has returned a row that is not the first
\* matching row of the table
C21_Witness ==
    \E c \in Calls :
        /\ calls[c].op = "findFirst" /\ calls[c].pc = "done"
        /\ calls[c].options.sortBy = <<"age">> /\ calls[c].options.skip = <<1>>
        /\ calls[c].result # <<>>
        /\ calls[c].result # << findMany(schema, headers, calls[c].rows,
                                          calls[c].filter, FALSE)[1] >>

\* the operator object the filter of the operation holds for a column (no
\* operator when it holds a literal or nothing)
OperatorsOn(call, key) ==
    IF key \in DOMAIN call.filter /\ call.filter[key].isOperator
    THEN call.filter[key].ops
    ELSE EmptyObject

\* C22 (as claimed): a row whose value in a column is null is not returned by a
\* findMany or findFirst whose filter holds, for that column, an operator
\* object containing gt, lt, gte or lte, whatever else the object contains.
C22_NullFailsOrderedOperators ==
    \A c \in Calls : \A i \in 1..Len(calls[c].rows) : \A j \in 1..Len(schema) :
        LET call == calls[c]
            item == mapRowToObject(schema, headers, call.rows[i])
        IN  ( /\ call.pc = "done"
              /\ call.op \in {"findMany", "findFirst"}
              /\ Get(item, schema[j].name) = Null
              /\ DOMAIN OperatorsOn(call, schema[j].name)
                    \cap {"gt", "lt", "gte", "lte"} # {} )
            => \A k \in 1..Len(call.result) : call.result[k] # item

\* C23 (as claimed): of the rows all of whose values are non-null, findMany
\* (without skip and limit) returns exactly those for which, for every column
\* the filter names, the literal equals the decoded value or every operator
\* present holds for the decoded value: gt, lt, gte, lte as the order of
\* numbers, ne as inequality.
C23_FilterSemantics ==
    \A c \in Calls : \A i \in 1..Len(calls[c].rows) :
        LET call == calls[c]
            item == mapRowToObject(schema, headers, call.rows[i])
            IsNumber(v) == v.t = "number" /\ v # NaNV
            Less(a, b) == IsNumber(a) /\ IsNumber(b) /\ a.n < b.n
            Holds(v, f) ==
                IF ~f.isOperator THEN v = f.value
                ELSE /\ "gt" \in DOMAIN f.ops => Less(f.ops["gt"], v)
                     /\ "lt" \in DOMAIN f.ops => Less(v, f.ops["lt"])
                     /\ "gte" \in DOMAIN f.ops => (Less(f.ops["gte"], v) \/ v = f.ops["gte"])
                     /\ "lte" \in DOMAIN f.ops => (Less(v, f.ops["lte"]) \/ v = f.ops["lte"])
                     /\ "ne" \in DOMAIN f.ops => v # f.ops["ne"]
        IN  ( /\ call.pc = "done" /\ call.op = "findMany"
              /\ call.options.skip = <<>> /\ call.options.limit = <<>>
              /\ \A key \in DOMAIN item : NotNullish(item[key]) )
            => ( (\E k \in 1..Len(call.result) : call.result[k] = item)
                 <=> \A key \in DOMAIN call.filter : Holds(Get(item, key), call.filter[key]) )

\* C24 (as claimed): in the result of a findMany with sortBy, for sortOrder asc
\* and for sortOrder desc, no row whose sort column is null stands before a
\* row whose sort column is non-null.
C24_NullsSortLast ==
    \A c \in Calls :
        LET call == calls[c]
        IN  (call.pc = "done" /\ call.op = "findMany" /\ call.options.sortBy # <<>>)
            => \A k1, k2 \in 1..Len(call.result) :
                  ( /\ k1 < k2
                    /\ ~NotNullish(Get(call.result[k1], call.options.sortBy[1])) )
                  => ~NotNullish(Get(call.result[k2], call.options.sortBy[1]))

\* C25: the result of findMany is the slice, from position skip (counted from
\* 0) and of at most limit elements, of the list of the live rows matching the
\* filter put in the order of sortBy and sortOrder, rows of equal sort key
\* staying in store order (the whole list in store order without sortBy); rows
\* without a sort key stand together at one end.
C25_FilterSortSkipLimit ==
    \A c \in Calls :
        LET call == calls[c]
            opts == call.options
            matched == findMany(schema, headers, call.rows, call.filter, FALSE)
            key(i) == Get(matched[i], opts.sortBy[1])
            Before(a, b) ==
                IF NotNullish(a) /\ NotNullish(b)
                THEN IF opts.sortOrder = "desc" THEN b.n < a.n ELSE a.n < b.n
                ELSE IF opts.sortOrder = "desc" THEN ~NotNullish(a) /\ NotNullish(b)
                                                ELSE NotNullish(a) /\ ~NotNullish(b)
            Rank(i) ==
                IF opts.sortBy = <<>> THEN i
                ELSE 1 + Cardinality({ j \in 1..Len(matched) : Before(key(j), key(i)) })
                       + Cardinality({ j \in 1..(i - 1) :
                                         ~Before(key(j), key(i)) /\ ~Before(key(i), key(j)) })
            ordered == [p \in 1..Len(matched) |->
                            matched[CHOOSE i \in 1..Len(matched) : Rank(i) = p]]
            from == IF opts.skip = <<>> THEN 0 ELSE opts.skip[1]
            upTo == IF opts.limit = <<>> \/ from + opts.limit[1] > Len(matched)
                    THEN Len(matched) ELSE from + opts.limit[1]
        IN  (call.pc = "done" /\ call.op = "findMany")
            => /\ Len(call.result) = (IF upTo > from THEN upTo - from ELSE 0)
               /\ \A p \in 1..Len(call.result) : call.result[p] = ordered[from + p]

\* a findMany with a filter, a descending sort, skip 1 and limit 1 on two
\* matching rows of one age has returned the second of them in store order
C25_Witness ==
    \E c \in Calls :
        /\ calls[c].op = "findMany" /\ calls[c].pc = "done"
        /\ calls[c].rows = << <<"3", "a", "3">>, <<"1", "ab", "3">> >>
        /\ "gte" \in DOMAIN OperatorsOn(calls[c], "age")
        /\ calls[c].options = FindOptions(FALSE, <<"age">>, "desc", <<1>>, <<1>>)
        /\ Len(calls[c].result) = 1
        /\ calls[c].result[1].id = NumV(1)

----------------------------------------------------------------------------
\* Claims about relations (checked under SpecRelations)

TargetRecords(relation) ==
    findManyOptions(relation.target, remoteData.header, remoteData.rows,
                    EmptyObject, FindOptions(FALSE, <<>>, "", <<>>, <<>>))

RelatedTo(relation, value) ==
    SelectSeq(TargetRecords(relation),
              LAMBDA r : StrictEquals(Get(r, relation.foreignKey), value))

IsNullish(value) == value.t \in {"null", "undefined"}

\* C27: after a findMany that includes a hasMany relation, every returned row
\* whose local key is not null carries, under the relation's name, exactly the
\* target rows whose foreign key equals that local key, in the target's result
\* order (an empty collection when there is none); a row whose local key is
\* null carries nothing under that name.
C27_HasManyCollections ==
    \A c \in Calls :
        LET call == calls[c]
        IN  (/\ call.op = "findMany" /\ call.pc = "done"
             /\ call.options.include # <<>>
             /\ call.options.include[1].type = "hasMany")
            => LET relation == call.options.include[1]
               IN  \A i \in 1..Len(call.result) :
                       LET item == call.result[i]
                           localValue == Get(item, relation.localKey)
                       IN  IF IsNullish(localValue)
                           THEN relation.name \notin DOMAIN item
                           ELSE /\ relation.name \in DOMAIN item
                                /\ item[relation.name] =
                                      [t |-> "array", rows |-> RelatedTo(relation, localValue)]

\* C28: after a findMany that includes a hasOne or belongsTo relation, every
\* returned row whose local key is not null carries, under the relation's name,
\* the first target row whose foreign key equals that local key, or null when
\* there is none.
C28_SingleRelationIsFirstMatch ==
    \A c \in Calls :
        LET call == calls[c]
        IN  (/\ call.op = "findMany" /\ call.pc = "done"
             /\ call.options.include # <<>>
             /\ call.options.include[1].type \in {"hasOne", "belongsTo"})
            => LET relation == call.options.include[1]
               IN  \A i \in 1..Len(call.result) :
                       LET item == call.result[i]
                           localValue == Get(item, relation.localKey)
                           related == RelatedTo(relation, localValue)
                       IN  ~IsNullish(localValue)
                           => /\ relation.name \in DOMAIN item
                              /\ item[relation.name] =
                                    IF related = <<>> THEN Null
                                    ELSE [t |-> "object", row |-> related[1]]


----------------------------------------------------------------------------
\* Encoding a value into a cell and decoding the cell (utils.ts)

\* the logical types of a column
DataTypes == {"string", "number", "boolean", "date", "json"}

\* values of each logical type that stringifyValue encodes: null, texts (the
\* empty one, ones that spell a number or a boolean), numbers, booleans,
\* instants and, for json, objects, arrays, strings, numbers and booleans
ValuesOf(type) ==
    {Null} \cup
    CASE type = "string"  -> {StrV(""), StrV("a"), StrV("Ab"), StrV("1"), StrV("true")}
      [] type = "number"  -> {NumV(0), NumV(1), NumV(9)}
      [] type = "boolean" -> {BoolV(TRUE), BoolV(FALSE)}
      [] type = "date"    -> {DateV(0), DateV(MaxTime)}
      [] OTHER            -> {JsonV("{}"), JsonV("[]"), StrV("a"), StrV("1"),
                              NumV(1), BoolV(TRUE), BoolV(FALSE)}

\* utils.ts:29-34: stringifyValue(value) for a value of a column of the type;
\* the cell is kept in rows
StringifyStep ==
    \E c \in Calls, type \in DataTypes :
        \E value \in ValuesOf(type) :
            /\ c = opCount + 1
            /\ calls[c] = Idle
            /\ opCount' = c
            /\ calls' = [calls EXCEPT ![c] =
                  [Call("stringifyValue", EmptyObject,
                        [k \in {"value", "type"} |->
                            IF k = "value" THEN value ELSE StrV(type)], FALSE)
                     EXCEPT !.pc = "stringified",
                            !.rows = << <<stringifyValue(value)>> >>]]
            /\ UNCHANGED <<schema, headers, lastAutoIncrementValues, issued, allEmpty,
                           svars, cvars>>

\* utils.ts:9-27: parseValue(cell, type) of the cell written
ParseStep ==
    \E c \in Calls :
        /\ calls[c].pc = "stringified"
        /\ calls' = [calls EXCEPT ![c].pc = "done", ![c].doing = "parseValue",
                        ![c].result = << [k \in {"value"} |->
                            parseValue(calls[c].rows[1], calls[c].data.type.s)] >>]
        /\ UNCHANGED <<mvarsButCalls, svars, cvars>>

InitRoundTrip ==
    /\ NoClient
    /\ schema = <<>>
    /\ headers = <<>>
    /\ lastAutoIncrementValues = EmptyObject
    /\ calls = [c \in Calls |-> Idle]
    /\ opCount = 0
    /\ issued = <<>>
    /\ allEmpty = TRUE
    /\ sheetExists = FALSE
    /\ sheetHeader = <<>>
    /\ sheetRows = <<>>
    /\ view = <<>>

NextRoundTrip ==
    \/ StringifyStep
    \/ ParseStep

SpecRoundTrip == InitRoundTrip /\ [][NextRoundTrip]_vars

\* C29: for every logical type and every value of that type, the empty string
\* in a string column and strings, numbers and booleans in a json column
\* included, decoding the cell that stringifyValue wrote gives back the value:
\* parseValue(stringifyValue(v), type) = v (objects compared by content).
C29_RoundTrip ==
    \A c \in Calls :
        (calls[c].op = "stringifyValue" /\ calls[c].pc = "done")
            => calls[c].result[1].value = calls[c].data.value


----------------------------------------------------------------------------
\* The like and ilike operators (model.ts:463-467, 515-526)

\* rows of the table of QuerySchema whose names differ in case, hold a dot or a
\* line break, or are missing
LikeRows ==
    { <<"1", "ab", "3">>, <<"2", "Ab", "3">>, <<"3", "a.b", "3">>, <<"4", "a\nb", "3">>,
      <<"5", "b", "3">>, <<"6">> }

LikePatterns == {"a%", "%b", "a_b", "a.b", "%", "_", "ab", "AB", "%.%", ""}

\* one of the two operators on the textual column name or on the numeric
\* column age
LikeFilters ==
    { [k \in {key} |-> Operators([o \in {operator} |-> StrV(pattern)])] :
        key \in {"name", "age"}, operator \in {"like", "ilike"}, pattern \in LikePatterns }

InitLike ==
    /\ NoClient
    /\ schema = QuerySchema
    /\ headers = <<>>
    /\ lastAutoIncrementValues = EmptyObject
    /\ calls = [c \in Calls |-> Idle]
    /\ opCount = 0
    /\ issued = <<>>
    /\ allEmpty = TRUE
    /\ sheetExists = TRUE
    /\ sheetHeader = Keys(QuerySchema)
    /\ sheetRows \in UNION { [1..k -> LikeRows] : k \in 0..MaxRows }
    /\ view = sheetRows

LikeStep ==
    \E filter \in LikeFilters :
        /\ opCount = 0
        /\ findManyCall(1, filter, FindOptions(FALSE, <<>>, "", <<>>, <<>>))

NextLike ==
    \/ LikeStep
    \/ \E c \in Calls : HeaderRead(c)
    \/ \E c \in Calls : DataRead(c)

SpecLike == InitLike /\ [][NextLike]_vars

\* the pattern characters from the i-th on match the value characters from the
\* j-th on: % stands for any run of characters, _ for any one character, any
\* other character for itself (up to case when fold)
RECURSIVE LikeMatchesFrom(_, _, _, _, _)
LikeMatchesFrom(pattern, i, value, j, fold) ==
    IF i > Len(pattern) THEN j > Len(value)
    ELSE IF pattern[i] = "%"
         THEN \E k \in j..(Len(value) + 1) : LikeMatchesFrom(pattern, i + 1, value, k, fold)
         ELSE /\ j <= Len(value)
              /\ \/ pattern[i] = "_"
                 \/ pattern[i] = value[j]
                 \/ fold /\ Canonicalize(pattern[i]) = Canonicalize(value[j])
              /\ LikeMatchesFrom(pattern, i + 1, value, j + 1, fold)

\* C30: findMany with a like (ilike) operator on a column returns exactly the
\* rows whose value in that column is a text that the pattern matches as a
\* whole, % standing for any sequence of zero or more characters, _ for exactly
\* one character and any other character for itself, case-sensitively for like
\* and case-insensitively for ilike; a value that is no text never matches.
C30_LikeMatchesWholeValue ==
    \A c \in Calls :
        LET call == calls[c]
        IN  (call.op = "findMany" /\ call.pc = "done"
             /\ \E key \in DOMAIN call.filter :
                    DOMAIN call.filter[key].ops \cap {"like", "ilike"} # {})
            => LET key == CHOOSE k \in DOMAIN call.filter : TRUE
                   ops == call.filter[key].ops
                   fold == "ilike" \in DOMAIN ops
                   pattern == IF fold THEN ops["ilike"].s ELSE ops["like"].s
                   items == [i \in 1..Len(call.rows) |->
                                mapRowToObject(schema, sheetHeader, call.rows[i])]
               IN  call.result =
                       SelectSeq(items, LAMBDA item :
                           /\ Get(item, key).t = "string"
                           /\ LikeMatchesFrom(Characters(pattern), 1,
                                              Characters(Get(item, key).s), 1, fold))


----------------------------------------------------------------------------
\* The header row is changed from outside while a Model is in use

\* somebody reorders the columns of the sheet: the header row now names the
\* schema's first two columns the other way round
ExternalHeaderChange ==
    /\ sheetExists
    /\ sheetHeader # <<"name", "id">>
    /\ sheetHeader' = <<"name", "id">>
    /\ UNCHANGED <<sheetExists, sheetRows, view, cvars, mvars>>

\* create calls: the first one alone, the later ones overlapping once the
\* headers are resolved
LaterCreateStep ==
    \E c \in Calls, data \in CreateInputs :
        /\ Quiet \/ headers # <<>>
        /\ create(c, data)

NextHeaders ==
    \/ LaterCreateStep
    \/ ExternalHeaderChange
    \/ \E c \in Calls : HeaderRead(c)
    \/ \E c \in Calls : CreateSheetReturn(c)
    \/ \E c \in Calls : HeaderWrite(c)
    \/ \E c \in Calls : UniqueRead(c)
    \/ \E c \in Calls : AutoIncrementRead(c)
    \/ \E c \in Calls : AppendReturn(c)
    \/ Sync

SpecHeaders == InitCreate /\ [][NextHeaders]_vars

\* the steps of ensureHeaders that wait for the header row or the sheet
HeaderSteps == {"headerRead", "createSheet", "headerWrite"}

----------------------------------------------------------------------------
\* Client calls that overlap: each call is followed from await to await.  The
\* remote content is numbered: every write leaves content that no read has
\* seen before (remoteData + 1).

SheetRanges == { <<"S", "!", "A">>, <<"S", "!", "B">> }

ClientWrites == {"appendValues", "updateValues", "clearValues"}

\* client.ts:45-56: getSheetValues up to its return from the cache or to the
\* await of values.get
ClientGet(c, range) ==
    /\ c = opCount + 1
    /\ calls[c] = Idle
    /\ opCount' = c
    /\ calls' = [calls EXCEPT ![c] =
          IF CacheHit(cache, range, now, cacheTTL)
          THEN [Call("getSheetValues", EmptyObject, EmptyObject, FALSE)
                  EXCEPT !.pc = "done", !.count = CacheGet(cache, range)[1].data]
          ELSE [Call("getSheetValues", EmptyObject, EmptyObject, FALSE)
                  EXCEPT !.pc = "remoteGet",
                         !.wrote = << RemoteCall("get", range, <<>>) >>]]
    /\ UNCHANGED <<schema, headers, lastAutoIncrementValues, issued, allEmpty, svars, cvars>>

\* the remote store serves the read: the response carries the content of now
RemoteGetAnswers(c) ==
    /\ calls[c].pc = "remoteGet"
    /\ calls' = [calls EXCEPT ![c].pc = "getReturn", ![c].count = remoteData]
    /\ UNCHANGED <<mvarsButCalls, svars, cvars>>

\* client.ts:58-67: the response has arrived; it is stored and returned
GetReturn(c) ==
    LET range == calls[c].wrote[1].range
    IN  /\ calls[c].pc = "getReturn"
        /\ cache' = IF cacheTTL > 0
                    THEN CacheSet(EnforceMaxSize(cache, maxCacheSize),
                                  range, calls[c].count, now)
                    ELSE cache
        /\ calls' = [calls EXCEPT ![c].pc = "done"]
        /\ UNCHANGED <<mvarsButCalls, svars, cacheTTL, maxCacheSize, now, remoteData,
                       written, lastOp>>

\* client.ts:70-78, 83-91, 96-100: a write up to the await of its remote call
ClientWrite(c, op, range) ==
    /\ c = opCount + 1
    /\ calls[c] = Idle
    /\ opCount' = c
    /\ calls' = [calls EXCEPT ![c] =
          [Call(op, EmptyObject, EmptyObject, FALSE)
             EXCEPT !.pc = "remoteWrite", !.wrote = << RemoteCall(op, range, <<>>) >>]]
    /\ UNCHANGED <<schema, headers, lastAutoIncrementValues, issued, allEmpty, svars, cvars>>

\* the remote store applies the write; count is the content it leaves
RemoteWriteApplied(c) ==
    /\ calls[c].pc = "remoteWrite"
    /\ remoteData' = remoteData + 1
    /\ calls' = [calls EXCEPT ![c].pc = "writeReturn", ![c].count = remoteData + 1]
    /\ UNCHANGED <<mvarsButCalls, svars, cache, cacheTTL, maxCacheSize, now, written,
                   lastOp>>

\* client.ts:79-80, 92-93, 101-102: the write has answered; invalidateCache
WriteReturn(c) ==
    /\ calls[c].pc = "writeReturn"
    /\ cache' = invalidateCache(cache, calls[c].wrote[1].range)
    /\ calls' = [calls EXCEPT ![c].pc = "done"]
    /\ UNCHANGED <<mvarsButCalls, svars, cacheTTL, maxCacheSize, now, remoteData,
                   written, lastOp>>

GetCallStep == \E c \in Calls, range \in SheetRanges : ClientGet(c, range)

WriteCallStep ==
    \E c \in Calls, op \in ClientWrites, range \in SheetRanges : ClientWrite(c, op, range)

NextOverlap ==
    \/ GetCallStep
    \/ WriteCallStep
    \/ \E c \in Calls : RemoteGetAnswers(c)
    \/ \E c \in Calls : GetReturn(c)
    \/ \E c \in Calls : RemoteWriteApplied(c)
    \/ \E c \in Calls : WriteReturn(c)
    \/ Tick

SpecOverlap == InitClient /\ [][NextOverlap]_vars

\* C32: once a write to a table has returned, the cache holds, under the
\* ranges of that table, no payload that was fetched before the write was
\* applied (no content older than the one the write left), also when a
\* getSheetValues call for the table was in flight while the write ran.
C32_NoStalePayloadAfterWrite ==
    \A c \in Calls :
        (calls[c].op \in ClientWrites /\ calls[c].pc = "done")
            => \A i \in 1..Len(cache) :
                  StartsWith(cache[i].key,
                             SheetNameOf(calls[c].wrote[1].range) \o <<"!">>)
                      => cache[i].data >= calls[c].count


----------------------------------------------------------------------------
\* More claims about remote failures (checked under SpecErrors)

\* the operation has left ensureHeaders without being rejected in it
PastEnsureHeaders(call) ==
    /\ call.pc \notin {"idle"} \cup HeaderSteps
    /\ ~(/\ call.error # NoError
         /\ call.failed # <<>>
         /\ call.failed[Len(call.failed)].at \in HeaderSteps)

\* C33: an operation goes on to read or append data rows only when the header
\* row exists remotely: after a header write that failed, the next operation
\* resolves the headers again (so that no operation is past ensureHeaders while
\* the sheet has no header row).
C33_HeadersResolvedOnlyWhenWritten ==
    \A c \in Calls : PastEnsureHeaders(calls[c]) => sheetHeader # <<>>


\* C34: when a hard delete has ended, by returning or by being rejected on one
\* of its remote calls, every row that it read and that did not match its
\* filter is still in the store (before any later operation touches it).
C34_HardDeleteKeepsNonMatching ==
    \A c \in Calls :
        LET call == calls[c]
        IN  (/\ call.op = "delete" /\ call.pc = "done" /\ opCount = c
             /\ call.force \/ getDeletedAtField(schema) = <<>>)
            => \A i \in 1..Len(NonMatching(call)) :
                  \E j \in 1..Len(sheetRows) : sheetRows[j] = NonMatching(call)[i]


----------------------------------------------------------------------------
\* More claims about update (checked under SpecMutate)

\* C35: an update that succeeded on a store in which no two live rows shared a
\* value in a column declared unique leaves no two live rows sharing one (the
\* first operation of a behaviour reads the store as it is).
C35_UpdateKeepsUnique ==
    \A c \in Calls :
        LET call == calls[c]
        IN  (/\ call.op = "update" /\ call.pc = "done" /\ call.error = NoError
             /\ c = 1 /\ opCount = 1
             /\ LiveDuplicates(schema, headers, call.rows) = {})
            => LiveDuplicates(schema, headers, sheetRows) = {}


----------------------------------------------------------------------------
\* Overlapping upsert calls (model.ts:234-242)

\* the Model on a sheet that is missing, empty or holds rows that match no
\* where of UpsertArgs: rows named b with the id 1
InitUpsertOverlap ==
    /\ InitModel
    /\ InitSheet(UNION { [1..k -> { <<"1", "b">>, <<"1", "b", "">> }] : k \in 0..MaxRows })
    /\ view = sheetRows

\* upsert is called again while the upsert before it is at one of its awaits
OverlappingUpsertStep ==
    \E c \in Calls, args \in UpsertArgs :
        /\ c > 1 => calls[c - 1].pc # "done"
        /\ upsert(c, args[1], args[2], args[3])

NextUpsertOverlap ==
    \/ OverlappingUpsertStep
    \/ \E c \in Calls : HeaderRead(c)
    \/ \E c \in Calls : CreateSheetReturn(c)
    \/ \E c \in Calls : HeaderWrite(c)
    \/ \E c \in Calls : DataRead(c)
    \/ \E c \in Calls : UniqueRead(c)
    \/ \E c \in Calls : AutoIncrementRead(c)
    \/ \E c \in Calls : AppendReturn(c)
    \/ \E c \in Calls : DataWrite(c)
    \/ Sync

SpecUpsertOverlap == InitUpsertOverlap /\ [][NextUpsertOverlap]_vars

\* the rows of the store that match a filter, deleted or not
StoredMatching(filter) ==
    { i \in 1..Len(sheetRows) :
        matchesFilter(mapRowToObject(schema, headers, sheetRows[i]), filter) }

\* C36: when two overlapping upsert calls with the same where, started on a
\* table with no row matching where, have both ended, exactly one row of the
\* store matches where.
C36_OverlappingUpsertsLeaveOneRow ==
    \A c, d \in Calls :
        (/\ c < d
         /\ calls[c].op = "upsert" /\ calls[d].op = "upsert"
         /\ calls[c].filter = calls[d].filter
         /\ Quiet)
        => Cardinality(StoredMatching(calls[c].filter)) = 1


----------------------------------------------------------------------------
\* More claims about auto-increment values (checked under SpecCreate)

\* the values of a column in the rows that the creates which have returned
\* appended
WrittenBefore(key) ==
    UNION { { Get(calls[d].created[i], key) : i \in 1..Len(calls[d].created) } :
            d \in { e \in Calls : /\ calls[e].op = "create" /\ calls[e].pc = "done"
                                  /\ calls[e].error = NoError } }

\* C37: an auto-increment value is never generated equal to a value that a
\* create of the same Model which has already returned wrote to the column,
\* whether that value was generated or supplied by the caller, and whether or
\* not the read of the data rows shows that row yet.
C37_GeneratedValueIsNew ==
    [][ \A c \in Calls :
            Len(calls'[c].generated) > Len(calls[c].generated)
                => NumV(calls'[c].generated[Len(calls'[c].generated)])
                       \notin WrittenBefore("id") ]_vars


----------------------------------------------------------------------------
\* More claims about header resolution (checked under SpecCreate)

\* the header writes of an operation that have returned
HeaderWritesDone(call) ==
    SelectSeq(call.wrote, LAMBDA w : w.op = "updateValues" /\ w.range = "A1"
                                     /\ call.pc # "headerWrite")

\* C38: when operations of a Model that has not resolved its headers overlap,
\* the header row is written at most once: no operation writes it twice and no
\* two operations both write it.
C38_HeaderWrittenAtMostOnce ==
    /\ \A c \in Calls : Len(HeaderWritesDone(calls[c])) <= 1
    /\ \A c, d \in Calls :
          c # d => HeaderWritesDone(calls[c]) = <<>> \/ HeaderWritesDone(calls[d]) = <<>>


----------------------------------------------------------------------------
\* What update writes into the rows it matches (model.ts:244-282)

\* data rows whose id cell holds a text Number() does not read back as written
\* (a number the sheet shows with its thousands separator), beside the rows of
\* RowChoices whose cells do
FrameRowChoices == { <<"1,000", "a", "">>, <<"1", "a", "">>, <<"3", "b">> }

InitUpdateFrame ==
    /\ InitModel
    /\ InitSheet(UNION { [1..k -> FrameRowChoices] : k \in 0..MaxRows })
    /\ view = sheetRows

SpecUpdateFrame == InitUpdateFrame /\ [][NextMutate]_vars

\* the text of a cell of a row; a cell the remote read leaves out is empty
CellText(row, index) == IF index <= Len(row) THEN row[index] ELSE ""

\* the positions of the columns update(filter, data) sets
ColumnsSet(hdrs, data) ==
    { j \in 1..Len(hdrs) :
          \/ hdrs[j] \in DOMAIN data
          \/ getUpdatedAtField(schema) = <<hdrs[j]>> }

\* C39: in each matched row that update(filter, data) writes back, only the
\* cells of the columns named in data and of the updated-at column differ from
\* what was read; every other cell holds the text that was read.
C39_UpdateChangesOnlyNamedCells ==
    \A c \in Calls :
        LET call == calls[c]
        IN  (call.op = "update" /\ call.pc \in {"dataWrite", "done"} /\ call.wrote # <<>>)
            => \A i \in MatchingLive(call) :
                   \A j \in 1..(Len(call.rows[i]) + Len(headers)) :
                       j \notin ColumnsSet(headers, call.data)
                       => CellText(call.wrote[1].values[i], j) = CellText(call.rows[i], j)

====
